---- MODULE Spec2Model ----
(***************************************************************************)
(* Verification model of the supportops agent service: the ingestion       *)
(* pipeline (app/ingest.py), chunk selection (app/retrieval_selector.py),  *)
(* answer generation (app/answer_generator.py) and the chat decision       *)
(* policy (app/service.py, app/retrieval.py).                              *)
(***************************************************************************)
EXTENDS Integers, Sequences, FiniteSets, TLC

Max(a, b) == IF a >= b THEN a ELSE b
Min(a, b) == IF a <= b THEN a ELSE b

(***************************************************************************)
(* Bounds of the model.                                                    *)
(***************************************************************************)
MaxRuns == 3
MaxMatches == 3
MaxEvidence == 2
MaxWords == 4
MaxTextWords == 5

(***************************************************************************)
(* Text: a sequence of characters.                                         *)
(***************************************************************************)
IsSpace(c) == c \in {" ", "\n"}
\* The contents the document takes: no word, one word, another word, the
\* same word twice, and a word twice followed by a different word.
DocTexts == {<<>>, <<"a">>, <<"a", "a">>, <<"a", " ", "a">>,
             <<"a", " ", "a", " ", "a", "a">>}

\* str.split(): the maximal runs of non-blank characters, in order.  The
\* words of a text are the words of its two halves, the last word of the
\* first half and the first of the second being one word when no blank
\* separates them.
RECURSIVE SplitHalves(_)
SplitHalves(text) ==
  IF text = <<>> THEN <<>>
  ELSE IF Len(text) = 1 THEN (IF IsSpace(text[1]) THEN <<>> ELSE <<text>>)
  ELSE
    \* the set binds the words of each half once
    CHOOSE words \in
      {IF IsSpace(text[Len(text) \div 2]) \/ IsSpace(text[Len(text) \div 2 + 1])
         THEN left \o right
         ELSE SubSeq(left, 1, Len(left) - 1)
                \o <<left[Len(left)] \o right[1]>> \o Tail(right) :
       left \in {SplitHalves(SubSeq(text, 1, Len(text) \div 2))},
       right \in {SplitHalves(SubSeq(text, Len(text) \div 2 + 1, Len(text)))}} : TRUE
Split(text) == SplitHalves(text)

\* " ".join(words)
RECURSIVE JoinWords(_)
JoinWords(words) ==
  IF words = <<>> THEN <<>>
  ELSE IF Len(words) = 1 THEN words[1]
  ELSE JoinWords(SubSeq(words, 1, Len(words) \div 2)) \o <<" ">>
         \o JoinWords(SubSeq(words, Len(words) \div 2 + 1, Len(words)))

\* str.strip(): drop leading and trailing blanks.
RECURSIVE LStrip(_)
LStrip(s) == IF s # <<>> /\ IsSpace(s[1]) THEN LStrip(Tail(s)) ELSE s
RECURSIVE RStrip(_)
RStrip(s) ==
  IF s # <<>> /\ IsSpace(s[Len(s)]) THEN RStrip(SubSeq(s, 1, Len(s) - 1)) ELSE s
Strip(s) == RStrip(LStrip(s))

\* Python slice words[start:end] with 0 <= start <= end <= len(words).
Slice(s, start, end) == SubSeq(s, start + 1, end)

(***************************************************************************)
(* ingest.py: chunk_text                                                   *)
(***************************************************************************)
MaxChunkSize == 400

RECURSIVE ChunkLoop(_, _, _, _, _)
ChunkLoop(words, size, overlap, start, chunks) ==
  IF ~(start < Len(words)) THEN chunks
  ELSE
    LET end == Min(Len(words), start + size)
        chunk == Strip(JoinWords(Slice(words, start, end)))
        chunks2 == IF chunk # <<>> THEN Append(chunks, chunk) ELSE chunks
    IN IF end >= Len(words) THEN chunks2
       ELSE ChunkLoop(words, size, overlap, Max(0, end - overlap), chunks2)

chunk_text_no_overlap(text, chunk_size, chunk_overlap) ==
  LET words == Split(text)
      size == Max(1, Min(chunk_size, MaxChunkSize))
  IN IF words = <<>> THEN <<>> ELSE ChunkLoop(words, size, 0, 0, <<>>)

chunk_text(text, chunk_size, chunk_overlap) ==
  LET words == Split(text)
      size == Max(1, Min(chunk_size, MaxChunkSize))
      overlap == Max(0, Min(chunk_overlap, size - 1))
  IN IF words = <<>> THEN <<>> ELSE ChunkLoop(words, size, overlap, 0, <<>>)

(***************************************************************************)
(* ingest.py: hash_chunk.  sha256 is modelled as a collision-free digest:  *)
(* the positional encoding of the chunk text, which differs for any two    *)
(* different texts.                                                        *)
(***************************************************************************)
CharCode(c) == IF IsSpace(c) THEN 2 ELSE 1
RECURSIVE HashLoop(_, _)
HashLoop(s, h) == IF s = <<>> THEN h ELSE HashLoop(Tail(s), 3 * h + CharCode(s[1]))
hash_chunk(chunk) == HashLoop(chunk, 1)

(***************************************************************************)
(* State of the ingestion pipeline: one knowledge-base document, the       *)
(* kb_chunks rows stored for it, and the position and locals of the        *)
(* run_ingest call in progress.                                            *)
(***************************************************************************)
VARIABLES
  kbDocument, \* the kb_documents row: whether it exists, and its org_id
  content,    \* kb_documents.content of the document
  store,      \* kb_chunks rows of the document
  nextId,     \* next row id the store assigns
  runs,       \* number of run_ingest calls started
  ipc,        \* position of the run_ingest call: idle, delete, insert
  ilocal,     \* locals of the run_ingest call in progress
  lastRun     \* how the last run_ingest call ended

ingestVars == <<kbDocument, content, store, nextId, runs, ipc, ilocal, lastRun>>

ChunkSizes == {1, 2}
ChunkOverlaps == {0, 1}

\* run_ingest: chunk_hashes
RECURSIVE MapHash(_)
MapHash(chunks) ==
  IF chunks = <<>> THEN <<>> ELSE <<hash_chunk(chunks[1])>> \o MapHash(Tail(chunks))

\* run_ingest: unique_map, a dict in insertion order: the sequence of
\* <<chunk_hash, index of its first occurrence>>.
HasKey(m, h) == \E k \in 1..Len(m) : m[k][1] = h
Keys(m) == {m[k][1] : k \in 1..Len(m)}
Lookup(m, h) == (CHOOSE k \in 1..Len(m) : m[k][1] = h)

RECURSIVE UniqueLoop(_, _, _)
UniqueLoop(hashes, index, m) ==
  IF index >= Len(hashes) THEN m
  ELSE IF HasKey(m, hashes[index + 1])
    THEN UniqueLoop(hashes, index + 1, m)
    ELSE UniqueLoop(hashes, index + 1, Append(m, <<hashes[index + 1], index>>))

RECURSIVE NoDedupLoop(_, _, _)
NoDedupLoop(hashes, index, m) ==
  IF index >= Len(hashes) THEN m
  ELSE NoDedupLoop(hashes, index + 1, Append(m, <<hashes[index + 1], index>>))
unique_map_nodedup(chunk_hashes) == NoDedupLoop(chunk_hashes, 0, <<>>)

unique_map_of(chunk_hashes) == UniqueLoop(chunk_hashes, 0, <<>>)

\* run_ingest: existing_hashes, the dict {chunk_hash: id} of the stored rows
\* with a chunk_hash.  Were two rows to carry the same hash, the dict keeps
\* one of them, whichever the store returns last.
existing_hashes_of(rows) ==
  LET hs == {r.chunk_hash : r \in rows}
      ids == {r.id : r \in rows}
  IN {f \in [hs -> ids] : \A h \in hs : \E r \in rows : r.chunk_hash = h /\ r.id = f[h]}

\* run_ingest: to_delete
to_delete_stale_only(force, existing, new_hashes) ==
  {existing[h] : h \in {x \in DOMAIN existing : x \notin new_hashes}}

to_delete_force_only(force, existing, new_hashes) ==
  IF ~force THEN {} ELSE {existing[h] : h \in DOMAIN existing}

to_delete_of(force, existing, new_hashes) ==
  IF ~force
    THEN {existing[h] : h \in {x \in DOMAIN existing : x \notin new_hashes}}
    ELSE {existing[h] : h \in DOMAIN existing}

\* run_ingest: to_insert_hashes, in unique_map order, after
\* "if force: existing_hashes = {}".
to_insert_all(force, unique_map, existing) ==
  SelectSeq([k \in 1..Len(unique_map) |-> unique_map[k][1]], LAMBDA h : TRUE)

to_insert_hashes_of(force, unique_map, existing) ==
  LET known == IF force THEN {} ELSE DOMAIN existing
  IN SelectSeq([k \in 1..Len(unique_map) |-> unique_map[k][1]],
               LAMBDA h : h \notin known)

\* run_ingest: to_insert_chunks, the chunks passed to provider.embed.
to_insert_chunks_unique(to_insert_hashes, chunks, unique_map) ==
  [k \in 1..Len(unique_map) |-> chunks[unique_map[k][2] + 1]]

to_insert_chunks_of(to_insert_hashes, chunks, unique_map) ==
  [k \in 1..Len(to_insert_hashes) |->
     chunks[unique_map[Lookup(unique_map, to_insert_hashes[k])][2] + 1]]

\* run_ingest: rows, one per hash to insert; the store assigns the ids.
rows_of_dense(to_insert_hashes, chunks, unique_map, firstId) ==
  {[id |-> firstId + k - 1,
    chunk_hash |-> to_insert_hashes[k],
    chunk_index |-> k - 1,
    content |-> chunks[unique_map[Lookup(unique_map, to_insert_hashes[k])][2] + 1]]
   : k \in 1..Len(to_insert_hashes)}

rows_of(to_insert_hashes, chunks, unique_map, firstId) ==
  {[id |-> firstId + k - 1,
    chunk_hash |-> to_insert_hashes[k],
    chunk_index |-> unique_map[Lookup(unique_map, to_insert_hashes[k])][2],
    content |-> chunks[unique_map[Lookup(unique_map, to_insert_hashes[k])][2] + 1]]
   : k \in 1..Len(to_insert_hashes)}

\* Python's None.
None == "None"

\* The kb_documents row of document_id: none, one without org_id, or one
\* owned by an org.
NoDocument == [exists |-> FALSE, org_id |-> None]
Documents == {NoDocument, [exists |-> TRUE, org_id |-> None],
              [exists |-> TRUE, org_id |-> "org1"]}
\* The org_id of the request: none, or an org that does not own the document.
RequestOrgs == {None, "org2"}

\* run_ingest: doc_result.data is not empty.  The org_id filter is added
\* only for a request with an org_id.
found_any_org(org_id) == kbDocument.exists

found(org_id) ==
  /\ kbDocument.exists
  /\ (org_id = None \/ kbDocument.org_id = org_id)

NoLocal == [org_id |-> None, force |-> FALSE, size |-> 0, overlap |-> 0, text |-> <<>>,
            chunks |-> <<>>, unique_map |-> <<>>, existing |-> <<>>,
            to_delete |-> {}, before |-> {}, deleted |-> 0,
            repeats |-> FALSE, resumes |-> FALSE]

NoRun == [status |-> "none", org_id |-> None, force |-> FALSE, size |-> 0, overlap |-> 0,
          text |-> <<>>, total |-> 0, inserted |-> 0, skipped |-> 0,
          deleted |-> 0, embedCalls |-> 0, embedded |-> <<>>, before |-> {},
          afterDelete |-> FALSE, repeats |-> FALSE, resumes |-> FALSE]

\* The call being started has the content and parameters of the last call.
SameAsLast(force, chunk_size, chunk_overlap) ==
  /\ lastRun.force = force
  /\ lastRun.size = chunk_size
  /\ lastRun.overlap = chunk_overlap
  /\ lastRun.text = content

\* It is the second of two non-force calls in a row on unchanged content,
\* the first of which ran to completion.
RepeatsLast(force, chunk_size, chunk_overlap) ==
  /\ ~force
  /\ lastRun.status = "ok"
  /\ SameAsLast(force, chunk_size, chunk_overlap)

\* It re-runs a call that stopped between its delete and the end of its insert.
ResumesLast(force, chunk_size, chunk_overlap) ==
  /\ lastRun.afterDelete
  /\ SameAsLast(force, chunk_size, chunk_overlap)

IngestInit ==
  /\ kbDocument \in Documents
  /\ content \in DocTexts
  /\ store = {}
  /\ nextId = 1
  /\ runs = 0
  /\ ipc = "idle"
  /\ ilocal = NoLocal
  /\ lastRun = NoRun

\* How a call ends: the response or the HTTP error, and what it did.
Ended(status, inserted, deleted, embedCalls, afterDelete) ==
  [status |-> status, org_id |-> ilocal.org_id, force |-> ilocal.force,
   size |-> ilocal.size,
   overlap |-> ilocal.overlap, text |-> ilocal.text,
   total |-> Len(ilocal.unique_map), inserted |-> inserted,
   skipped |-> Len(ilocal.unique_map) - inserted, deleted |-> deleted,
   embedCalls |-> embedCalls,
   embedded |-> IF embedCalls = 0 THEN <<>>
                ELSE to_insert_chunks_of(
                       to_insert_hashes_of(ilocal.force, ilocal.unique_map,
                                           ilocal.existing),
                       ilocal.chunks, ilocal.unique_map),
   before |-> ilocal.before,
   afterDelete |-> afterDelete, repeats |-> ilocal.repeats,
   resumes |-> ilocal.resumes]

Finish(r) ==
  /\ ipc' = "idle"
  /\ ilocal' = NoLocal
  /\ lastRun' = r

\* A KB write changes the document content between two run_ingest calls.
EditContent(text) ==
  /\ ipc = "idle"
  /\ text # content
  /\ content' = text
  /\ UNCHANGED <<kbDocument, store, nextId, runs, ipc, ilocal, lastRun>>

\* run_ingest up to the delete: document lookup, chunking, hashing, the read
\* of the stored hashes and the computation of to_delete.
IngestBegin(org_id, force, chunk_size, chunk_overlap) ==
  /\ ipc = "idle"
  /\ runs < MaxRuns
  /\ found(org_id)
  /\ kbDocument.org_id # None
  /\ LET chunks == chunk_text(content, chunk_size, chunk_overlap)
         unique_map == unique_map_of(MapHash(chunks))
     IN /\ chunks # <<>>
        /\ \E existing \in existing_hashes_of(store) :
             LET to_delete == to_delete_of(force, existing, Keys(unique_map))
             IN /\ ilocal' = [org_id |-> org_id, force |-> force, size |-> chunk_size,
                              overlap |-> chunk_overlap, text |-> content,
                              chunks |-> chunks, unique_map |-> unique_map,
                              existing |-> existing, to_delete |-> to_delete,
                              before |-> store, deleted |-> 0,
                              repeats |-> RepeatsLast(force, chunk_size, chunk_overlap),
                              resumes |-> ResumesLast(force, chunk_size, chunk_overlap)]
                /\ ipc' = IF to_delete # {} THEN "delete" ELSE "insert"
  /\ runs' = runs + 1
  /\ UNCHANGED <<kbDocument, content, store, nextId, lastRun>>

\* run_ingest for a document that is absent or filtered out by the org_id
\* of the request: 404 kb_not_found.
IngestNotFound(org_id) ==
  /\ ipc = "idle"
  /\ runs < MaxRuns
  /\ ~found(org_id)
  /\ runs' = runs + 1
  /\ lastRun' = [NoRun EXCEPT !.status = "kb_not_found", !.org_id = org_id,
                              !.before = store]
  /\ UNCHANGED <<kbDocument, content, store, nextId, ipc, ilocal>>

\* run_ingest for a document without org_id: 500 kb_missing_org.
IngestMissingOrg(org_id) ==
  /\ ipc = "idle"
  /\ runs < MaxRuns
  /\ found(org_id)
  /\ kbDocument.org_id = None
  /\ runs' = runs + 1
  /\ lastRun' = [NoRun EXCEPT !.status = "kb_missing_org", !.org_id = org_id,
                              !.before = store]
  /\ UNCHANGED <<kbDocument, content, store, nextId, ipc, ilocal>>

\* run_ingest on content without words: 400 kb_content_empty.
IngestEmpty(org_id, force, chunk_size, chunk_overlap) ==
  /\ ipc = "idle"
  /\ runs < MaxRuns
  /\ found(org_id)
  /\ kbDocument.org_id # None
  /\ chunk_text(content, chunk_size, chunk_overlap) = <<>>
  /\ runs' = runs + 1
  /\ lastRun' = [NoRun EXCEPT !.status = "kb_content_empty",
                              !.org_id = org_id, !.force = force,
                              !.size = chunk_size, !.overlap = chunk_overlap,
                              !.text = content, !.before = store]
  /\ UNCHANGED <<kbDocument, content, store, nextId, ipc, ilocal>>

\* The delete of to_delete succeeds.
IngestDelete ==
  /\ ipc = "delete"
  /\ store' = {r \in store : r.id \notin ilocal.to_delete}
  /\ ilocal' = [ilocal EXCEPT !.deleted = Cardinality(ilocal.to_delete)]
  /\ ipc' = "insert"
  /\ UNCHANGED <<kbDocument, content, nextId, runs, lastRun>>

\* The delete raises: 500 db_error.
IngestDeleteFail ==
  /\ ipc = "delete"
  /\ Finish(Ended("db_error", 0, 0, 0, FALSE))
  /\ UNCHANGED <<kbDocument, content, store, nextId, runs>>

\* provider.embed and the insert of the rows succeed; the call returns.
IngestInsert ==
  /\ ipc = "insert"
  /\ LET hs == to_insert_hashes_of(ilocal.force, ilocal.unique_map, ilocal.existing)
         rows == rows_of(hs, ilocal.chunks, ilocal.unique_map, nextId)
     IN /\ store' = store \cup rows
        /\ nextId' = nextId + Len(hs)
        /\ Finish(Ended("ok", Cardinality(rows), ilocal.deleted,
                        IF hs # <<>> THEN 1 ELSE 0, FALSE))
  /\ UNCHANGED <<kbDocument, content, runs>>

\* provider.embed raises: 500 embedding_error.
IngestEmbedFail ==
  /\ ipc = "insert"
  /\ to_insert_hashes_of(ilocal.force, ilocal.unique_map, ilocal.existing) # <<>>
  /\ Finish(Ended("embedding_error", 0, ilocal.deleted, 1, TRUE))
  /\ UNCHANGED <<kbDocument, content, store, nextId, runs>>

\* The insert raises after the embedding: 500 db_error.
IngestInsertFail ==
  /\ ipc = "insert"
  /\ LET hs == to_insert_hashes_of(ilocal.force, ilocal.unique_map, ilocal.existing)
     IN /\ hs # <<>>
        /\ Finish(Ended("db_error", 0, ilocal.deleted, 1, TRUE))
  /\ UNCHANGED <<kbDocument, content, store, nextId, runs>>

\* The process dies between the delete and the insert.
IngestCrash ==
  /\ ipc = "insert"
  /\ Finish(Ended("crashed", 0, ilocal.deleted, 0, TRUE))
  /\ UNCHANGED <<kbDocument, content, store, nextId, runs>>

IngestNext ==
  \/ \E text \in DocTexts : EditContent(text)
  \/ \E org_id \in RequestOrgs, force \in BOOLEAN, size \in ChunkSizes,
        overlap \in ChunkOverlaps :
       IngestBegin(org_id, force, size, overlap)
  \/ \E org_id \in RequestOrgs : IngestNotFound(org_id)
  \/ \E org_id \in RequestOrgs : IngestMissingOrg(org_id)
  \/ \E org_id \in RequestOrgs, force \in BOOLEAN, size \in ChunkSizes,
        overlap \in ChunkOverlaps :
       IngestEmpty(org_id, force, size, overlap)
  \/ IngestDelete
  \/ IngestDeleteFail
  \/ IngestInsert
  \/ IngestEmbedFail
  \/ IngestInsertFail
  \/ IngestCrash

(***************************************************************************)
(* retrieval_selector.py: select_chunks, applied to one candidate list.    *)
(***************************************************************************)
VARIABLES
  selArgs,    \* the arguments of the select_chunks call
  selected    \* its result, or NotCalled before the call

selVars == <<selArgs, selected>>

NotCalled == "not_called"

\* str(row.get("id") or "") and str(row.get("document_id") or ""): a missing
\* or None field reads as the empty string.
ChunkIds == {"", "c1", "c2", "c3"}
DocIds == {"", "d1", "d2"}
MatchRows == [id : ChunkIds, document_id : DocIds]
MatchLists == UNION {[1..n -> MatchRows] : n \in 0..MaxMatches}
\* RETRIEVAL_MAX_CHUNKS and RETRIEVAL_MAX_PER_DOC: any non-negative setting.
MaxChunksValues == 0..2
MaxPerDocValues == 0..2

RECURSIVE SelectLoop(_, _, _, _, _, _, _)
SelectLoop(matches, i, sel, seen_chunks, per_doc, max_chunks, max_per_doc) ==
  IF i > Len(matches) THEN sel
  ELSE
    LET row == matches[i]
        chunk_id == row.id
        doc_id == row.document_id
    IN IF chunk_id = "" \/ chunk_id \in seen_chunks
         THEN SelectLoop(matches, i + 1, sel, seen_chunks, per_doc, max_chunks, max_per_doc)
       ELSE IF doc_id # "" /\ per_doc[doc_id] >= max_per_doc
         THEN SelectLoop(matches, i + 1, sel, seen_chunks, per_doc, max_chunks, max_per_doc)
       ELSE
         LET sel2 == Append(sel, row)
             seen2 == seen_chunks \cup {chunk_id}
             per2 == IF doc_id # ""
                       THEN [per_doc EXCEPT ![doc_id] = per_doc[doc_id] + 1]
                       ELSE per_doc
         IN IF Len(sel2) >= max_chunks THEN sel2
            ELSE SelectLoop(matches, i + 1, sel2, seen2, per2, max_chunks, max_per_doc)

select_chunks(matches, max_chunks, max_per_doc) ==
  SelectLoop(matches, 1, <<>>, {}, [d \in DocIds |-> 0], max_chunks, max_per_doc)

SelectIdle ==
  /\ selArgs = [matches |-> <<>>, max_chunks |-> 0, max_per_doc |-> 0]
  /\ selected = NotCalled

SelectInit ==
  /\ selArgs \in [matches : MatchLists, max_chunks : MaxChunksValues,
                  max_per_doc : MaxPerDocValues]
  /\ selected = NotCalled

SelectChunks ==
  /\ selected = NotCalled
  /\ selected' = select_chunks(selArgs.matches, selArgs.max_chunks, selArgs.max_per_doc)
  /\ UNCHANGED selArgs

(***************************************************************************)
(* Text helpers: str.lower() and the substring test "needle in text".      *)
(***************************************************************************)
UpperChars ==
  <<"A", "B", "C", "D", "E", "F", "G", "H", "I", "J", "K", "L", "M", "N", "O",
    "P", "Q", "R", "S", "T", "U", "V", "W", "X", "Y", "Z">>
LowerChars ==
  <<"a", "b", "c", "d", "e", "f", "g", "h", "i", "j", "k", "l", "m", "n", "o",
    "p", "q", "r", "s", "t", "u", "v", "w", "x", "y", "z">>
LowerChar(c) ==
  IF \E k \in 1..Len(UpperChars) : UpperChars[k] = c
    THEN LowerChars[CHOOSE k \in 1..Len(UpperChars) : UpperChars[k] = c]
    ELSE c
Lower(s) == [k \in 1..Len(s) |-> LowerChar(s[k])]
Contains(text, needle) ==
  \E k \in 1..(Len(text) - Len(needle) + 1) :
    SubSeq(text, k, k + Len(needle) - 1) = needle

(***************************************************************************)
(* prompts.py: get_clarify_prompt with no override in the environment.     *)
(***************************************************************************)
DEFAULT_CLARIFY_PROMPT ==
  <<"C", "a", "n", " ", "y", "o", "u", " ", "a", "d", "d", " ", "m", "o",
    "r", "e", " ", "c", "o", "n", "t", "e", "x", "t", " ", "(", "a", "c",
    "c", "o", "u", "n", "t", ",", " ", "s", "t", "e", "p", "s", ",", " ",
    "a", "n", "d", " ", "e", "x", "p", "e", "c", "t", "e", "d", " ", "b",
    "e", "h", "a", "v", "i", "o", "r", ")", "?">>
get_clarify_prompt == DEFAULT_CLARIFY_PROMPT

(***************************************************************************)
(* answer_generator.py: generate_answer, applied to one evidence list.     *)
(* Confidences and similarities are counted in units of 0.0001, so 0.05 is *)
(* 500 and 0.95 is 9500.  An evidence item is its org_id, its similarity   *)
(* (<<x>>, or <<>> when the row has none) and the length of its stripped   *)
(* content.                                                                *)
(***************************************************************************)
VARIABLES
  genArgs,    \* the arguments and environment of the generate_answer call
  genOut      \* its result, or NoAnswer before the call

genVars == <<genArgs, genOut>>

Orgs == {"org1", "org2"}
NoSimilarity == <<>>
Similarities == {NoSimilarity, <<-1000>>, <<300>>, <<9900>>}
ContentLens == {0, 100, 1500}
EvidenceItems == [org_id : Orgs \cup {None}, similarity : Similarities,
                  content_len : ContentLens]
EvidenceLists == UNION {[1..n -> EvidenceItems] : n \in 0..MaxEvidence}

\* What call_llm does: it raises, or it returns the stripped reply text.
LLMReplies ==
  {<<>>,
   <<"R", "e", "s", "t", "a", "r", "t", " ", "i", "t", ".">>,
   <<"I", "n", "s", "u", "f", "f", "i", "c", "i", "e", "n", "t", " ", "d",
     "a", "t", "a", ".">>}
Raises == [raises |-> TRUE, reply |-> <<>>]
LLMOutcomes == {Raises} \cup {[raises |-> FALSE, reply |-> r] : r \in LLMReplies}

\* looks_uncertain
UncertainTriggers ==
  {<<"i", " ", "d", "o", "n", "'", "t", " ", "k", "n", "o", "w">>,
   <<"i", "n", "s", "u", "f", "f", "i", "c", "i", "e", "n", "t">>,
   <<"n", "o", "t", " ", "e", "n", "o", "u", "g", "h", " ", "i", "n", "f",
     "o", "r", "m", "a", "t", "i", "o", "n">>,
   <<"n", "o", " ", "t", "e", "n", "g", "o", " ", "s", "u", "f", "i", "c",
     "i", "e", "n", "t", "e">>,
   <<"n", "o", " ", "c", "u", "e", "n", "t", "o", " ", "c", "o", "n">>,
   <<"n", "o", " ", "t", "e", "n", "g", "o", " ", "i", "n", "f", "o", "r",
     "m", "a", "c", "i", "o", "n">>,
   <<"n", "o", " ", "d", "i", "s", "p", "o", "n", "g", "o", " ", "d", "e">>,
   <<"n", "e", "c", "e", "s", "i", "t", "o", " ", "m", "a", "s", " ", "c",
     "o", "n", "t", "e", "x", "t", "o">>}
looks_uncertain(reply) ==
  \E trigger \in UncertainTriggers : Contains(Lower(reply), trigger)

\* estimate_confidence
RECURSIVE SeqMax(_)
SeqMax(s) == IF Len(s) = 1 THEN s[1] ELSE Max(s[1], SeqMax(Tail(s)))

estimate_confidence(chunks) ==
  LET numeric == SelectSeq(chunks, LAMBDA chunk : chunk.similarity # NoSimilarity)
      similarities == [k \in 1..Len(numeric) |-> numeric[k].similarity[1]]
  IN IF similarities = <<>>
       THEN IF chunks # <<>> THEN 6000 ELSE 4000
       ELSE Max(0, Min(9500, SeqMax(similarities)))

\* filter_chunks_by_org
filter_chunks_by_org_global(chunks, org_id, allow_global) ==
  IF org_id = None THEN chunks
  ELSE SelectSeq(chunks, LAMBDA chunk :
         chunk.org_id = org_id \/ chunk.org_id = None)

filter_chunks_by_org(chunks, org_id, allow_global) ==
  IF org_id = None THEN chunks
  ELSE SelectSeq(chunks, LAMBDA chunk :
         chunk.org_id = org_id \/ (allow_global /\ chunk.org_id = None))

\* build_context, over lengths: the evidence items placed in the context and
\* total_chars.  The header line of an item is taken to be HeaderLineLen long.
CHUNK_CONTEXT_MAX_CHARS == 1200
CONTEXT_TOTAL_MAX_CHARS == 6000
HeaderLineLen == 100

RECURSIVE ContextLoop(_, _, _, _, _, _)
ContextLoop(chunks, i, parts, total_chars, max_chars, total_max_chars) ==
  IF i > Len(chunks) THEN [parts |-> parts, total_chars |-> total_chars]
  ELSE
    LET raw == chunks[i].content_len
        clen == IF max_chars > 0 /\ raw > max_chars THEN max_chars + 3 ELSE raw
        block == HeaderLineLen + clen
        remaining == total_max_chars - total_chars
    IN IF raw = 0
         THEN ContextLoop(chunks, i + 1, parts, total_chars, max_chars, total_max_chars)
       ELSE IF total_max_chars > 0 /\ total_chars >= total_max_chars
         THEN [parts |-> parts, total_chars |-> total_chars]
       ELSE IF total_max_chars > 0 /\ total_chars + block > total_max_chars
         THEN IF remaining <= HeaderLineLen
                THEN [parts |-> parts, total_chars |-> total_chars]
                ELSE ContextLoop(chunks, i + 1, Append(parts, chunks[i]),
                                 total_chars + remaining, max_chars, total_max_chars)
       ELSE ContextLoop(chunks, i + 1, Append(parts, chunks[i]),
                        total_chars + block, max_chars, total_max_chars)

build_context(chunks, max_chars, total_max_chars) ==
  ContextLoop(chunks, 1, <<>>, 0, max_chars, total_max_chars)

\* adjust_confidence
adjust_confidence_noclamp(confidence, context_chars, chunk_count, reply) ==
  LET a1 == IF chunk_count < 2 THEN (confidence * 9) \div 10 ELSE confidence
      a2 == IF context_chars < 400 THEN (a1 * 8) \div 10 ELSE a1
      a3 == IF looks_uncertain(reply) THEN (a2 * 5) \div 10 ELSE a2
  IN a3

adjust_confidence(confidence, context_chars, chunk_count, reply) ==
  LET a1 == IF chunk_count < 2 THEN (confidence * 9) \div 10 ELSE confidence
      a2 == IF context_chars < 400 THEN (a1 * 8) \div 10 ELSE a1
      a3 == IF looks_uncertain(reply) THEN (a2 * 5) \div 10 ELSE a2
  IN Max(500, Min(9500, a3))

\* _fallback_answer: the reply and the generation_source; generate_answer
\* drops the confidence it returns.
fallback_answer(chunks) ==
  [reply |-> get_clarify_prompt, source |-> "fallback"]

generate_answer_adjusted_fallback(chunks, org_id, configured, allow_global, llm) ==
  LET filtered_chunks == filter_chunks_by_org(chunks, org_id, allow_global)
      confidence == estimate_confidence(filtered_chunks)
      fb == fallback_answer(filtered_chunks)
      ctx == build_context(filtered_chunks, CHUNK_CONTEXT_MAX_CHARS,
                           CONTEXT_TOTAL_MAX_CHARS)
      fallback == [reply |-> fb.reply,
                   confidence |-> adjust_confidence(confidence, ctx.total_chars,
                                                    Len(filtered_chunks), fb.reply),
                   source |-> fb.source, context |-> <<>>, llm_calls |-> 0]
  IN IF org_id # None /\ filtered_chunks = <<>>
       THEN [reply |-> get_clarify_prompt, confidence |-> 4000,
             source |-> "filtered_empty", context |-> <<>>, llm_calls |-> 0]
     ELSE IF ~configured THEN fallback
     ELSE IF ctx.parts = <<>> THEN fallback
     ELSE IF llm.raises \/ llm.reply = <<>>
       THEN [fallback EXCEPT !.context = ctx.parts, !.llm_calls = 1]
     ELSE [reply |-> llm.reply,
           confidence |-> adjust_confidence(confidence, ctx.total_chars,
                                            Len(filtered_chunks), llm.reply),
           source |-> "llm", context |-> ctx.parts, llm_calls |-> 1]

\* generate_answer.  configured: LLM_PROVIDER and LLM_MODEL are both set;
\* llm: what call_llm does when it is reached.
generate_answer(chunks, org_id, configured, allow_global, llm) ==
  LET filtered_chunks == filter_chunks_by_org(chunks, org_id, allow_global)
      confidence == estimate_confidence(filtered_chunks)
      fb == fallback_answer(filtered_chunks)
      fallback == [reply |-> fb.reply, confidence |-> confidence,
                   source |-> fb.source, context |-> <<>>, llm_calls |-> 0]
      ctx == build_context(filtered_chunks, CHUNK_CONTEXT_MAX_CHARS,
                           CONTEXT_TOTAL_MAX_CHARS)
  IN IF org_id # None /\ filtered_chunks = <<>>
       THEN [reply |-> get_clarify_prompt, confidence |-> 4000,
             source |-> "filtered_empty", context |-> <<>>, llm_calls |-> 0]
     ELSE IF ~configured THEN fallback
     ELSE IF ctx.parts = <<>> THEN fallback
     ELSE IF llm.raises \/ llm.reply = <<>>
       THEN [fallback EXCEPT !.context = ctx.parts, !.llm_calls = 1]
     ELSE [reply |-> llm.reply,
           confidence |-> adjust_confidence(confidence, ctx.total_chars,
                                            Len(filtered_chunks), llm.reply),
           source |-> "llm", context |-> ctx.parts, llm_calls |-> 1]

NoAnswer == [reply |-> <<>>, confidence |-> 0, source |-> "not_called",
             context |-> <<>>, llm_calls |-> 0]

GenIdle ==
  /\ genArgs = [chunks |-> <<>>, org_id |-> None, configured |-> FALSE,
                allow_global |-> FALSE, llm |-> Raises]
  /\ genOut = NoAnswer

GenInit ==
  /\ genArgs \in [chunks : EvidenceLists, org_id : {None, "org1"},
                  configured : BOOLEAN, allow_global : BOOLEAN, llm : LLMOutcomes]
  /\ genArgs.configured \/ genArgs.llm = Raises
  /\ genArgs.org_id # None \/ ~genArgs.allow_global
  /\ genOut = NoAnswer

GenerateAnswer ==
  /\ genOut = NoAnswer
  /\ genOut' = generate_answer(genArgs.chunks, genArgs.org_id, genArgs.configured,
                               genArgs.allow_global, genArgs.llm)
  /\ UNCHANGED genArgs

(***************************************************************************)
(* retrieval.py: the heuristic decision functions.  Each returns a tuple   *)
(* of three values <<reply, action, confidence>>; precheck_action returns  *)
(* None, written <<>>, when it does not decide.                            *)
(***************************************************************************)
ticket_keywords ==
  {<<"b", "u", "g">>, <<"e", "r", "r", "o", "r">>, <<"i", "s", "s", "u", "e">>,
   <<"i", "n", "c", "i", "d", "e", "n", "t">>, <<"c", "r", "a", "s", "h">>,
   <<"o", "u", "t", "a", "g", "e">>, <<"f", "a", "i", "l">>}

MORE_DETAIL_REPLY ==
  <<"P", "l", "e", "a", "s", "e", " ", "s", "h", "a", "r", "e", " ", "a",
    " ", "b", "i", "t", " ", "m", "o", "r", "e", " ", "d", "e", "t", "a",
    "i", "l", " ", "s", "o", " ", "I", " ", "c", "a", "n", " ", "h", "e",
    "l", "p", ".">>
TICKET_REPLY ==
  <<"T", "h", "a", "n", "k", "s", " ", "f", "o", "r", " ", "r", "e", "p",
    "o", "r", "t", "i", "n", "g", " ", "t", "h", "i", "s", ".", " ", "I",
    " ", "a", "m", " ", "c", "r", "e", "a", "t", "i", "n", "g", " ", "a",
    " ", "t", "i", "c", "k", "e", "t", " ", "a", "n", "d", " ", "w", "i",
    "l", "l", " ", "f", "o", "l", "l", "o", "w", " ", "u", "p", " ", "w",
    "i", "t", "h", " ", "n", "e", "x", "t", " ", "s", "t", "e", "p", "s",
    ".">>
MORE_CONTEXT_REPLY ==
  <<"C", "a", "n", " ", "y", "o", "u", " ", "a", "d", "d", " ", "m", "o",
    "r", "e", " ", "c", "o", "n", "t", "e", "x", "t", " ", "(", "a", "c",
    "c", "o", "u", "n", "t", ",", " ", "s", "t", "e", "p", "s", ",", " ",
    "a", "n", "d", " ", "e", "x", "p", "e", "c", "t", "e", "d", " ", "b",
    "e", "h", "a", "v", "i", "o", "r", ")", "?">>
CHECKING_REPLY ==
  <<"T", "h", "a", "n", "k", "s", ".", " ", "I", " ", "a", "m", " ", "c",
    "h", "e", "c", "k", "i", "n", "g", " ", "o", "u", "r", " ", "k", "n",
    "o", "w", "l", "e", "d", "g", "e", " ", "b", "a", "s", "e", ".", " ",
    "F", "o", "r", " ", "n", "o", "w", ",", " ", "t", "r", "y", " ", "r",
    "e", "s", "t", "a", "r", "t", "i", "n", "g", " ", "t", "h", "e", " ",
    "a", "p", "p", " ", "a", "n", "d", " ", "s", "h", "a", "r", "e", " ",
    "a", "n", "y", " ", "e", "r", "r", "o", "r", " ", "c", "o", "d", "e",
    ".">>

\* normalize_tags: the distinct non-empty tags, stripped and lower-cased.  The
\* code returns them as a sorted list; its callers here test only whether any
\* tag exists.
normalize_tags(tags) ==
  {Lower(Strip(tags[k])) : k \in 1..Len(tags)} \ {<<>>}

extract_hash_tags(message) ==
  LET words == Split(message)
      tagged == SelectSeq(words, LAMBDA word : word[1] = "#" /\ Len(word) > 1)
  IN normalize_tags([k \in 1..Len(tagged) |-> Tail(tagged[k])])

decide_response(message) ==
  LET msg == Lower(Strip(message))
  IN IF msg = <<>> THEN <<MORE_DETAIL_REPLY, "ask_clarifying", 2000>>
     ELSE IF \E keyword \in ticket_keywords : Contains(msg, keyword)
       THEN <<TICKET_REPLY, "create_ticket", 3500>>
     ELSE IF Len(Split(msg)) < 4 THEN <<MORE_CONTEXT_REPLY, "ask_clarifying", 4500>>
     ELSE <<CHECKING_REPLY, "reply", 7000>>

precheck_action_short_first(message) ==
  LET msg == Lower(Strip(message))
      tags == extract_hash_tags(msg)
  IN IF msg = <<>> THEN <<MORE_DETAIL_REPLY, "ask_clarifying", 2000>>
     ELSE IF \E keyword \in ticket_keywords : Contains(msg, keyword)
       THEN <<TICKET_REPLY, "create_ticket", 3500>>
     ELSE IF Len(Split(msg)) < 4 THEN <<MORE_CONTEXT_REPLY, "ask_clarifying", 4500>>
     ELSE <<>>

precheck_action(message) ==
  LET msg == Lower(Strip(message))
      tags == extract_hash_tags(msg)
  IN IF msg = <<>> THEN <<MORE_DETAIL_REPLY, "ask_clarifying", 2000>>
     ELSE IF \E keyword \in ticket_keywords : Contains(msg, keyword)
       THEN <<TICKET_REPLY, "create_ticket", 3500>>
     ELSE IF tags # {} THEN <<>>
     ELSE IF Len(Split(msg)) < 4 THEN <<MORE_CONTEXT_REPLY, "ask_clarifying", 4500>>
     ELSE <<>>

(***************************************************************************)
(* context_utils.py.  load_recent_messages is written against a Supabase   *)
(* client: it calls table("messages") on its first argument and returns [] *)
(* when that raises.  handle_chat passes deps.messages_repo, and the       *)
(* MessagesRepo port (create_message, list_messages) has no table method,  *)
(* so the call raises AttributeError inside the try.  rows are the stored  *)
(* messages of the conversation, oldest first.                             *)
(***************************************************************************)
MessagesRepoHasTable == FALSE

load_recent_messages(has_table, rows, limit) ==
  IF limit <= 0 THEN <<>>
  ELSE IF ~has_table THEN <<>>
  ELSE SubSeq(rows, Max(1, Len(rows) - limit + 1), Len(rows))

RoleText(role) ==
  CASE role = "user" -> <<"u", "s", "e", "r">>
    [] role = "assistant" -> <<"a", "s", "s", "i", "s", "t", "a", "n", "t">>
    [] OTHER -> <<"s", "y", "s", "t", "e", "m">>

RECURSIVE JoinLines(_)
JoinLines(lines) ==
  IF lines = <<>> THEN <<>>
  ELSE IF Len(lines) = 1 THEN lines[1]
  ELSE lines[1] \o <<"\n">> \o JoinLines(Tail(lines))

\* context_utils.build_context (answer_generator.py has a build_context of
\* its own, modelled above).
conversation_context(messages, max_chars) ==
  LET kept == SelectSeq(messages, LAMBDA message :
                /\ message.role \in {"user", "assistant", "system"}
                /\ Strip(message.content) # <<>>)
      lines == [k \in 1..Len(kept) |->
                  RoleText(kept[k].role) \o <<":", " ">>
                    \o JoinWords(Split(Strip(kept[k].content)))]
      context == Strip(JoinLines(lines))
  IN IF max_chars > 0 /\ Len(context) > max_chars
       THEN SubSeq(context, Len(context) - max_chars + 1, Len(context))
       ELSE context

\* service.build_retrieval_query: the decision message and the retrieval query.
build_retrieval_query_last_turn(message, context_text, prior_messages) ==
  IF context_text = <<>>
    THEN [decision_message |-> message, retrieval_query |-> message,
          context_used |-> FALSE]
  ELSE
    LET users == SelectSeq(prior_messages, LAMBDA m :
                   m.role = "user" /\ m.content # <<>>)
        user_context == [k \in 1..Len(users) |-> Strip(users[k].content)]
        assistants == SelectSeq(prior_messages, LAMBDA m : m.role = "assistant")
        last_assistant == IF assistants = <<>> THEN <<>>
                          ELSE Strip(assistants[Len(assistants)].content)
        recent_users == SubSeq(user_context, Len(user_context),
                               Len(user_context))
    IN [decision_message |->
          context_text \o <<"\n", "u", "s", "e", "r", ":", " ">> \o message,
        retrieval_query |->
          IF last_assistant = get_clarify_prompt /\ user_context # <<>>
            THEN Strip(JoinLines(Append(recent_users, message)))
            ELSE message,
        context_used |-> TRUE]

build_retrieval_query(message, context_text, prior_messages) ==
  IF context_text = <<>>
    THEN [decision_message |-> message, retrieval_query |-> message,
          context_used |-> FALSE]
  ELSE
    LET users == SelectSeq(prior_messages, LAMBDA m :
                   m.role = "user" /\ m.content # <<>>)
        user_context == [k \in 1..Len(users) |-> Strip(users[k].content)]
        assistants == SelectSeq(prior_messages, LAMBDA m : m.role = "assistant")
        last_assistant == IF assistants = <<>> THEN <<>>
                          ELSE Strip(assistants[Len(assistants)].content)
        recent_users == SubSeq(user_context, Max(1, Len(user_context) - 1),
                               Len(user_context))
    IN [decision_message |->
          context_text \o <<"\n", "u", "s", "e", "r", ":", " ">> \o message,
        retrieval_query |->
          IF last_assistant = get_clarify_prompt /\ user_context # <<>>
            THEN Strip(JoinLines(Append(recent_users, message)))
            ELSE message,
        context_used |-> TRUE]

(***************************************************************************)
(* service.py: handle_chat.  One conversation store holds the messages of  *)
(* every conversation; chatOut is what the last request returned or raised *)
(* together with the calls it made on its dependencies, in order.          *)
(***************************************************************************)
VARIABLES
  messages,       \* the messages table: rows [conversation_id, role, content]
  conversations,  \* number of conversations created
  requests,       \* number of requests handled
  chatOut,        \* outcome and call trace of the last request
  chatReq         \* the last request: payload, dependencies, table and uuid

chatVars == <<messages, conversations, requests, chatOut, chatReq>>

MaxRequests == 1

CONTEXT_MESSAGE_LIMIT == 6
CONTEXT_MAX_CHARS == 1200
REPLY_MIN_SIMILARITY == 3500

ChatMessages ==
  {<<" ">>,
   <<"o", "k">>,
   <<"I", " ", "h", "a", "v", "e", " ", "a", " ", "b", "u", "g", " ", "w",
     "i", "t", "h", " ", "l", "o", "g", "i", "n">>,
   <<"B", "u", "g", " ", "#", "l", "o", "g", "i", "n">>,
   <<"#", "l", "o", "g", "i", "n">>,
   <<"H", "o", "w", " ", "d", "o", " ", "I", " ", "r", "e", "s", "e", "t",
     " ", "i", "t">>}

KB_REPLY ==
  <<"R", "e", "s", "e", "t", ":", " ", "o", "p", "e", "n", " ", "s", "e",
    "t", "t", "i", "n", "g", "s">>

\* citations: None, or a list of citation records.
NoCitations == [none |-> TRUE, items |-> <<>>]
CitationValues ==
  {NoCitations, [none |-> FALSE, items |-> <<>>],
   [none |-> FALSE, items |-> <<[kb_document_id |-> "d1"]>>]}
HasCitations(citations) == ~citations.none /\ citations.items # <<>>

\* What Retriever.retrieve returns: None (Miss) or the tuple
\* (reply, citations, confidence, run_metadata), of which run_metadata
\* carries retrieval_source and top_similarity.
Miss == [hit |-> FALSE, reply |-> <<>>, citations |-> NoCitations,
         confidence |-> 0, retrieval_source |-> "none",
         top_similarity |-> NoSimilarity]
RetrievalMetas ==
  ({"vector"} \X {NoSimilarity, <<1000>>, <<3500>>, <<9000>>})
    \cup ({"document"} \X {NoSimilarity, <<1000>>})
KbReplies ==
  {[hit |-> TRUE, reply |-> KB_REPLY, citations |-> c, confidence |-> conf,
    retrieval_source |-> m[1], top_similarity |-> m[2]] :
     c \in CitationValues, conf \in {3000, 9000}, m \in RetrievalMetas}
RetrieverResults == {Miss} \cup KbReplies

\* What TicketsRepo.create_ticket returns: None or an empty row (row FALSE),
\* or a row whose id is absent (None), empty, or set.
TicketResults ==
  {[row |-> FALSE, id |-> None], [row |-> TRUE, id |-> None],
   [row |-> TRUE, id |-> ""], [row |-> TRUE, id |-> "t1"]}

NoTicket == [row |-> FALSE, id |-> None]

\* The dependency call that raises during a request, if any.
Faults == {"none", "create_conversation", "create_message_user", "retrieve",
           "create_ticket", "create_message_assistant", "create_run"}

NoDecision ==
  [reply |-> <<>>, action |-> None, confidence |-> 0, citations |-> NoCitations,
   decision_reason |-> None, decision_source |-> None, guardrail |-> None]

NoOutcome ==
  [status |-> "none", detail |-> None, cause |-> None, conversation_id |-> 0,
   message |-> <<>>, response |-> NoDecision, ticket_id |-> None,
   pre |-> NoDecision, retrieved |-> Miss, ticket_result |-> NoTicket,
   calls |-> <<>>, persisted |-> <<>>,
   conversation_created |-> FALSE, run_recorded |-> FALSE,
   decision_message |-> <<>>, retrieval_query |-> <<>>]

\* The except clause of handle_chat: any exception inside the try block
\* leaves as ServiceError("db_error"), chained to its cause, and no response
\* is returned.  The cause is the dependency call that raised, "ValueError"
\* for a failed tuple unpacking, or "ticket_insert_failed".
ServiceError_audited(payload, conversation_id, cause, pre, retrieved, calls, persisted, created) ==
  [NoOutcome EXCEPT !.status = "error", !.detail = "db_error", !.cause = cause,
                    !.conversation_id = conversation_id,
                    !.message = payload.message, !.pre = pre,
                    !.retrieved = retrieved,
                    !.calls = Append(calls, "create_run"),
                    !.persisted = persisted, !.conversation_created = created]

ServiceError(payload, conversation_id, cause, pre, retrieved, calls, persisted, created) ==
  [NoOutcome EXCEPT !.status = "error", !.detail = "db_error", !.cause = cause,
                    !.conversation_id = conversation_id,
                    !.message = payload.message, !.pre = pre,
                    !.retrieved = retrieved, !.calls = calls,
                    !.persisted = persisted, !.conversation_created = created]

low_similarity_guardrail_off(d, retrieval_source, top_similarity, reply_min_similarity) ==
  d

low_similarity_guardrail_uncapped(d, retrieval_source, top_similarity, reply_min_similarity) ==
  IF /\ d.action = "reply"
     /\ retrieval_source = "vector"
     /\ top_similarity # NoSimilarity
     /\ top_similarity[1] < reply_min_similarity
    THEN [d EXCEPT !.guardrail = "low_similarity", !.action = "ask_clarifying",
                   !.reply = get_clarify_prompt, !.citations = NoCitations,
                   !.decision_source = "guardrail",
                   !.decision_reason = "guardrail_low_similarity"]
    ELSE d

\* The low-similarity guardrail.
low_similarity_guardrail(d, retrieval_source, top_similarity, reply_min_similarity) ==
  IF /\ d.action = "reply"
     /\ retrieval_source = "vector"
     /\ top_similarity # NoSimilarity
     /\ top_similarity[1] < reply_min_similarity
    THEN [d EXCEPT !.guardrail = "low_similarity", !.action = "ask_clarifying",
                   !.confidence = Min(d.confidence, 4000),
                   !.reply = get_clarify_prompt, !.citations = NoCitations,
                   !.decision_source = "guardrail",
                   !.decision_reason = "guardrail_low_similarity"]
    ELSE d

missing_citations_guardrail_off(d) == d

\* The missing-citations guardrail.
missing_citations_guardrail(d) ==
  IF d.action = "reply" /\ ~HasCitations(d.citations)
    THEN [d EXCEPT !.guardrail = "missing_citations", !.action = "ask_clarifying",
                   !.confidence = Min(d.confidence, 4000),
                   !.reply = get_clarify_prompt, !.citations = NoCitations,
                   !.decision_source = "guardrail",
                   !.decision_reason = "guardrail_missing_citations"]
    ELSE d


\* The actions for which handle_chat creates a ticket.
needs_ticket_always(action) == TRUE

needs_ticket(action) == action \in {"create_ticket", "escalate"}

\* handle_chat from the guardrails to the return: d is the decision before
\* the guardrail stage, retrieved what the retriever returned (Miss when it
\* was not called or returned None).
\* runs_repo.create_run in its own try block: an exception it raises is
\* logged and the outcome is returned all the same.
record_run_fatal(out, fault) ==
  IF fault = "create_run"
    THEN [NoOutcome EXCEPT !.status = "error", !.detail = "db_error",
                           !.cause = "create_run",
                           !.conversation_id = out.conversation_id,
                           !.message = out.message, !.pre = out.pre,
                           !.retrieved = out.retrieved, !.calls = out.calls,
                           !.persisted = out.persisted,
                           !.conversation_created = out.conversation_created]
    ELSE out

record_run(out, fault) ==
  IF fault = "create_run" THEN [out EXCEPT !.run_recorded = FALSE] ELSE out

Conclude(payload, conversation_id, deps, d, retrieved, calls, persisted, created) ==
  LET d1 == low_similarity_guardrail(d, retrieved.retrieval_source,
                                     retrieved.top_similarity, REPLY_MIN_SIMILARITY)
      d2 == missing_citations_guardrail(d1)
      d3 == IF d2.decision_reason \in {None, ""}
              THEN [d2 EXCEPT !.decision_reason = "unspecified"] ELSE d2
      handoff == needs_ticket(d3.action)
      calls1 == IF handoff THEN Append(calls, "create_ticket") ELSE calls
      ticket_id == IF handoff /\ deps.fault # "create_ticket" /\ deps.ticket.row
                     THEN deps.ticket.id ELSE None
      calls2 == Append(calls1, "create_message")
      assistant_row == [conversation_id |-> conversation_id, role |-> "assistant",
                        content |-> d3.reply]
      ticket_result == IF handoff /\ deps.fault # "create_ticket"
                         THEN deps.ticket ELSE NoTicket
  IN IF handoff /\ deps.fault = "create_ticket"
       THEN ServiceError(payload, conversation_id, "create_ticket", d, retrieved,
                         calls1, persisted, created)
     ELSE IF handoff /\ ticket_id \in {None, ""}
       THEN [ServiceError(payload, conversation_id, "ticket_insert_failed", d,
                          retrieved, calls1, persisted, created)
               EXCEPT !.ticket_result = ticket_result]
     ELSE IF deps.fault = "create_message_assistant"
       THEN [ServiceError(payload, conversation_id, "create_message", d, retrieved,
                          calls2, persisted, created)
               EXCEPT !.ticket_result = ticket_result]
     ELSE record_run(
            [status |-> "ok", detail |-> None, cause |-> None,
             conversation_id |-> conversation_id,
             message |-> payload.message, response |-> d3,
             ticket_id |-> ticket_id,
             pre |-> d, retrieved |-> retrieved, ticket_result |-> ticket_result,
             calls |-> Append(calls2, "create_run"),
             persisted |-> Append(persisted, assistant_row),
             conversation_created |-> created,
             run_recorded |-> TRUE,
             decision_message |-> <<>>, retrieval_query |-> <<>>],
            deps.fault)

\* The message precheck_action was given, and the query the retriever was
\* called with: what a request that got as far as that records.
Decided(out, decision_message) ==
  [out EXCEPT !.decision_message = decision_message]

Retrieving(out, decision_message, retrieval_query) ==
  [out EXCEPT !.decision_message = decision_message,
              !.retrieval_query = retrieval_query]

\* The decision_reason of a retriever hit.
kb_decision_reason_vector_only(retrieval_source) ==
  IF retrieval_source = "vector" THEN "kb_vector_match" ELSE None

kb_decision_reason(retrieval_source) ==
  IF retrieval_source = "vector" THEN "kb_vector_match" ELSE "kb_document_match"

\* handle_chat.  payload.conversation_id is 0 for None; uuid is the id a new
\* conversation gets; table is the messages table.  The results of
\* precheck_action and decide_response are unpacked into four names
\* (reply, action, confidence, decision_reason): a tuple of any other length
\* raises ValueError inside the try block.
handle_chat(payload, deps, table, uuid) ==
  LET fresh == payload.conversation_id = 0
      conversation_id == IF fresh THEN uuid ELSE payload.conversation_id
      calls0 == IF fresh THEN <<"create_conversation">>
                ELSE <<"load_recent_messages">>
      rows == SelectSeq(table, LAMBDA m : m.conversation_id = conversation_id)
      prior_messages ==
        IF fresh THEN <<>>
        ELSE load_recent_messages(MessagesRepoHasTable, rows, CONTEXT_MESSAGE_LIMIT)
      context_text ==
        IF fresh THEN <<>> ELSE conversation_context(prior_messages, CONTEXT_MAX_CHARS)
      calls1 == Append(calls0, "create_message")
      user_row == [conversation_id |-> conversation_id, role |-> "user",
                   content |-> payload.message]
      q == build_retrieval_query(payload.message, context_text, prior_messages)
      precheck == precheck_action(q.decision_message)
      calls2 == Append(calls1, "retrieve")
      kb_reply == deps.retrieved
      decided == decide_response(q.decision_message)
  IN IF fresh /\ deps.fault = "create_conversation"
       THEN ServiceError(payload, conversation_id, "create_conversation",
                         NoDecision, Miss, calls0, <<>>, FALSE)
     ELSE IF deps.fault = "create_message_user"
       THEN ServiceError(payload, conversation_id, "create_message",
                         NoDecision, Miss, calls1, <<>>, fresh)
     ELSE IF Len(precheck) > 0
       THEN Decided(
              IF Len(precheck) # 4
                THEN ServiceError(payload, conversation_id, "ValueError",
                                  NoDecision, Miss, calls1, <<user_row>>, fresh)
                ELSE Conclude(payload, conversation_id, deps,
                              [NoDecision EXCEPT !.reply = precheck[1],
                                                 !.action = precheck[2],
                                                 !.confidence = precheck[3],
                                                 !.decision_reason = precheck[4],
                                                 !.decision_source = "precheck"],
                              Miss, calls1, <<user_row>>, fresh),
              q.decision_message)
     ELSE Retrieving(
            IF deps.fault = "retrieve"
              THEN ServiceError(payload, conversation_id, "retrieve", NoDecision,
                                Miss, calls2, <<user_row>>, fresh)
            ELSE IF kb_reply.hit
              THEN Conclude(payload, conversation_id, deps,
                            [NoDecision EXCEPT
                               !.reply = kb_reply.reply, !.action = "reply",
                               !.confidence = kb_reply.confidence,
                               !.citations = kb_reply.citations,
                               !.decision_source = "kb",
                               !.decision_reason =
                                 kb_decision_reason(kb_reply.retrieval_source)],
                            kb_reply, calls2, <<user_row>>, fresh)
            ELSE IF Len(decided) # 4
              THEN ServiceError(payload, conversation_id, "ValueError",
                                NoDecision, Miss, calls2, <<user_row>>, fresh)
            ELSE Conclude(payload, conversation_id, deps,
                          [NoDecision EXCEPT !.reply = decided[1],
                                             !.action = decided[2],
                                             !.confidence = decided[3],
                                             !.decision_reason = decided[4],
                                             !.decision_source = "heuristic"],
                          Miss, calls2, <<user_row>>, fresh),
            q.decision_message, q.retrieval_query)

NoRequest ==
  [payload |-> [message |-> <<>>, conversation_id |-> 0],
   deps |-> [retrieved |-> Miss, ticket |-> NoTicket, fault |-> "none"],
   table |-> <<>>, uuid |-> 0]

ChatIdle ==
  /\ messages = <<>>
  /\ conversations = 0
  /\ requests = 0
  /\ chatOut = NoOutcome
  /\ chatReq = NoRequest

ChatInit == ChatIdle

\* One request: the client sends a message, with no conversation id or with
\* the id of a conversation created before.
HandleChat(message, conversation_id, retrieved, ticket, fault) ==
  /\ requests < MaxRequests
  /\ \E out \in {handle_chat([message |-> message, conversation_id |-> conversation_id],
                              [retrieved |-> retrieved, ticket |-> ticket,
                               fault |-> fault],
                              messages, conversations + 1)} :
       /\ chatOut' = out
       /\ messages' = messages \o out.persisted
       /\ conversations' = IF out.conversation_created
                             THEN conversations + 1 ELSE conversations
  /\ chatReq' = [payload |-> [message |-> message,
                              conversation_id |-> conversation_id],
                 deps |-> [retrieved |-> retrieved, ticket |-> ticket,
                           fault |-> fault],
                 table |-> messages, uuid |-> conversations + 1]
  /\ requests' = requests + 1

\* The calls a request makes decide which dependency results exist: the
\* retriever's result is drawn only when the request calls retrieve, the
\* ticket store's only when it calls create_ticket.
Calls(out, name) == \E k \in 1..Len(out.calls) : out.calls[k] = name

ChatNext ==
  /\ requests < MaxRequests
  /\ \E message \in ChatMessages, conversation_id \in 0..conversations, fault \in Faults :
       \E unanswered \in
            {handle_chat([message |-> message, conversation_id |-> conversation_id],
                         [retrieved |-> Miss, ticket |-> NoTicket, fault |-> fault],
                         messages, conversations + 1)} :
         \E retrieved \in IF Calls(unanswered, "retrieve") /\ fault # "retrieve"
                            THEN RetrieverResults ELSE {Miss} :
           \E unticketed \in
                {handle_chat([message |-> message, conversation_id |-> conversation_id],
                             [retrieved |-> retrieved, ticket |-> NoTicket,
                              fault |-> fault],
                             messages, conversations + 1)} :
             \E ticket \in IF Calls(unticketed, "create_ticket") /\ fault # "create_ticket"
                              THEN TicketResults ELSE {NoTicket} :
               HandleChat(message, conversation_id, retrieved, ticket, fault)

(***************************************************************************)
(* retrieval.py: precheck_action applied to one message.  The messages are *)
(* up to MaxWords words joined by blanks, and some that are blank or       *)
(* padded.                                                                 *)
(***************************************************************************)
VARIABLES
  preMessage,   \* the argument of the precheck_action call
  preOut        \* its result, or NotDecided before the call

preVars == <<preMessage, preOut>>

PrecheckWords ==
  {<<"o", "k">>, <<"b", "u", "g">>, <<"#", "l", "o", "g", "i", "n">>,
   <<"F", "a", "i", "l", "e", "d">>, <<"#">>}
PrecheckMessages ==
  {JoinWords(ws) : ws \in UNION {[1..n -> PrecheckWords] : n \in 0..MaxWords}}
    \cup {<<" ">>, <<"\n", " ">>, <<" ", "o", "k", "\n">>,
          <<" ", "#", "l", "o", "g", "i", "n", " ">>}

NotDecided == [called |-> FALSE, result |-> <<>>]

PrecheckIdle ==
  /\ preMessage = <<>>
  /\ preOut = NotDecided

PrecheckInit ==
  /\ preMessage \in PrecheckMessages
  /\ preOut = NotDecided

PrecheckAction ==
  /\ ~preOut.called
  /\ preOut' = [called |-> TRUE, result |-> precheck_action(preMessage)]
  /\ UNCHANGED preMessage

(***************************************************************************)
(* ingest.py: chunk_text applied to one text.  The texts are up to         *)
(* MaxTextWords words over two distinct words, joined by one blank or      *)
(* padded with more, and one text of MaxChunkSize + 1 words, which is the  *)
(* shortest that a chunk of the largest size does not hold.                *)
(***************************************************************************)
VARIABLES
  chunkArgs,   \* the arguments of the chunk_text call
  chunkOut     \* its result, or NotChunked before the call

chunkVars == <<chunkArgs, chunkOut>>

ChunkWords == {<<"a">>, <<"b", "c">>}
ShortTexts ==
  {JoinWords(ws) : ws \in UNION {[1..n -> ChunkWords] : n \in 0..MaxTextWords}}
    \cup {<<" ">>, <<" ", "a", " ", " ", "b", "c", "\n">>}
LongText == JoinWords([k \in 1..(MaxChunkSize + 1) |-> <<"a">>])

NotChunked == [called |-> FALSE, chunks |-> <<>>]

ChunkIdle ==
  /\ chunkArgs = [text |-> <<>>, chunk_size |-> 1, chunk_overlap |-> 0]
  /\ chunkOut = NotChunked

ChunkInit ==
  /\ \/ chunkArgs \in [text : ShortTexts, chunk_size : -1..4, chunk_overlap : -1..4]
     \/ chunkArgs \in [text : {LongText},
                       chunk_size : {MaxChunkSize, MaxChunkSize + 1, 2 * MaxChunkSize},
                       chunk_overlap : {0, MaxChunkSize - 1, MaxChunkSize}]
  /\ chunkOut = NotChunked

ChunkText ==
  /\ ~chunkOut.called
  /\ chunkOut' = [called |-> TRUE,
                  chunks |-> chunk_text(chunkArgs.text, chunkArgs.chunk_size,
                                        chunkArgs.chunk_overlap)]
  /\ UNCHANGED chunkArgs

(***************************************************************************)
(* adapters/retriever_adapter.py: DefaultRetriever.retrieve, applied to    *)
(* one message with given results of its dependencies.  calls is the       *)
(* sequence of dependency calls it made.  The similarity percentiles that  *)
(* _retrieve_vector logs and adds to the metadata are left out.            *)
(***************************************************************************)
VARIABLES
  retArgs,   \* message, org_id and what each dependency does when called
  retOut     \* result and calls of the retrieve call, or NotRetrieved

retVars == <<retArgs, retOut>>

RETRIEVAL_MAX_CHUNKS == 4
RETRIEVAL_MAX_PER_DOC == 2
EXCERPT_MAX_CHARS == 360

Digits == {"0", "1", "2", "3", "4", "5", "6", "7", "8", "9"}
IsAlnum(c) ==
  \/ c \in Digits
  \/ \E k \in 1..Len(LowerChars) : LowerChars[k] = c \/ UpperChars[k] = c

\* retrieval.extract_keywords: the first five of the runs of letters and
\* digits of the lower-cased message that are longer than three characters.
extract_keywords(message) ==
  LET lowered == Lower(message)
      tokens == Split([k \in 1..Len(lowered) |->
                         IF IsAlnum(lowered[k]) THEN lowered[k] ELSE " "])
      keywords == SelectSeq(tokens, LAMBDA token : Len(token) > 3)
  IN SubSeq(keywords, 1, Min(5, Len(keywords)))

\* str.replace(old, new) for single characters.
Replace(s, old, new) == [k \in 1..Len(s) |-> IF s[k] = old THEN new ELSE s[k]]

\* retrieval.build_kb_reply
build_kb_reply(document) ==
  LET stripped == Replace(Strip(document.content), "\n", " ")
      excerpt == IF Len(stripped) > EXCERPT_MAX_CHARS
                   THEN RStrip(SubSeq(stripped, 1, EXCERPT_MAX_CHARS))
                          \o <<".", ".", ".">>
                   ELSE stripped
  IN [reply |-> document.title \o <<":", " ">> \o excerpt,
      citations |-> [none |-> FALSE,
                     items |-> <<[kb_document_id |-> document.id]>>]]

\* retrieval_selector.build_citations, for rows without a document_title.
build_citations(chunks) ==
  [k \in 1..Len(chunks) |->
     [kb_chunk_id |-> chunks[k].id, kb_document_id |-> chunks[k].document_id,
      score |-> chunks[k].similarity]]

\* The tuple retrieve returns for a document hit.
DocumentHit(docs) ==
  [hit |-> TRUE, reply |-> build_kb_reply(docs[1]).reply,
   citations |-> build_kb_reply(docs[1]).citations, confidence |-> 8500,
   retrieval_source |-> "document", top_similarity |-> NoSimilarity]

\* _retrieve_vector.  v says what the environment and the dependencies do:
\* VECTOR_SEARCH_ENABLED, whether get_embedding_provider finds a provider,
\* whether embed and the match_kb_chunks call return, the rows returned,
\* whether generate_answer raises, and the LLM settings and outcome that
\* generate_answer meets.  Every exception after the provider lookup is
\* caught and gives None.
retrieve_vector_unguarded(query, org_id, v) ==
  LET chosen == select_chunks(v.data, RETRIEVAL_MAX_CHUNKS, RETRIEVAL_MAX_PER_DOC)
      numeric == SelectSeq(v.data, LAMBDA row : row.similarity # NoSimilarity)
      similarities == [k \in 1..Len(numeric) |-> numeric[k].similarity[1]]
      answer == generate_answer(chosen, org_id, v.llm_configured, FALSE, v.llm)
      none(calls) == [raised |-> FALSE, result |-> Miss, calls |-> calls]
      fails(calls) == [raised |-> TRUE, result |-> Miss, calls |-> calls]
  IN IF ~v.enabled THEN none(<<>>)
     ELSE IF ~v.configured THEN none(<<"get_embedding_provider">>)
     ELSE IF ~v.embed_ok THEN fails(<<"get_embedding_provider", "embed">>)
     ELSE IF ~v.rpc_ok
       THEN fails(<<"get_embedding_provider", "embed", "match_kb_chunks">>)
     ELSE IF v.data = <<>> \/ chosen = <<>>
       THEN none(<<"get_embedding_provider", "embed", "match_kb_chunks">>)
     ELSE IF v.gen_raises
       THEN fails(<<"get_embedding_provider", "embed", "match_kb_chunks",
                    "generate_answer">>)
     ELSE [raised |-> FALSE,
           result |-> [hit |-> TRUE, reply |-> answer.reply,
                       citations |-> [none |-> FALSE,
                                      items |-> build_citations(chosen)],
                       confidence |-> answer.confidence,
                       retrieval_source |-> "vector",
                       top_similarity |-> IF similarities = <<>> THEN NoSimilarity
                                          ELSE <<SeqMax(similarities)>>],
           calls |-> <<"get_embedding_provider", "embed", "match_kb_chunks",
                       "generate_answer">>]

retrieve_vector(query, org_id, v) ==
  [retrieve_vector_unguarded(query, org_id, v) EXCEPT !.raised = FALSE]

\* DefaultRetriever.retrieve.  deps gives the rows search_by_tags returns
\* (tagged), the rows search_by_text returns for the keywords and for the
\* whole query, the vector case, and the repository call that raises, if any.
retrieve(message, org_id, deps) ==
  LET query == Replace(Strip(message), ",", " ")
      tags == extract_hash_tags(query)
      keywords == extract_keywords(query)
      vector == retrieve_vector(query, org_id, deps.vector)
      ends(result, calls) == [raised |-> FALSE, result |-> result, calls |-> calls]
      fails(calls) == [raised |-> TRUE, result |-> Miss, calls |-> calls]
      tag_calls == IF tags # {} THEN <<"search_by_tags">> ELSE <<>>
      vector_calls == tag_calls \o vector.calls
      keyword_calls == IF keywords # <<>>
                         THEN Append(vector_calls, "search_by_text_keywords")
                         ELSE vector_calls
      text_calls == Append(keyword_calls, "search_by_text_query")
  IN IF query = <<>> THEN ends(Miss, <<>>)
     ELSE IF tags # {} /\ deps.fault = "search_by_tags" THEN fails(tag_calls)
     ELSE IF tags # {} /\ deps.tagged # <<>>
       THEN ends(DocumentHit(deps.tagged), tag_calls)
     ELSE IF vector.raised THEN fails(vector_calls)
     ELSE IF vector.result.hit THEN ends(vector.result, vector_calls)
     ELSE IF keywords # <<>> /\ deps.fault = "search_by_text" THEN fails(keyword_calls)
     ELSE IF keywords # <<>> /\ deps.keyword_docs # <<>>
       THEN ends(DocumentHit(deps.keyword_docs), keyword_calls)
     ELSE IF deps.fault = "search_by_text" THEN fails(text_calls)
     ELSE IF deps.text_docs # <<>> THEN ends(DocumentHit(deps.text_docs), text_calls)
     ELSE ends(Miss, text_calls)

RetrieveMessages ==
  {<<" ">>, <<",">>, <<"h", "i">>,
   <<"#", "l", "o", "g", "i", "n">>,
   <<"r", "e", "s", "e", "t", " ", "p", "a", "s", "s", "w", "o", "r", "d">>,
   <<"#", "L", "o", "g", "i", "n", ",", " ", "r", "e", "s", "e", "t", " ",
     "p", "a", "s", "s", "w", "o", "r", "d">>}

KbDoc(id, title, body) == [id |-> id, title |-> title, content |-> body]
DocLists ==
  {<<>>,
   <<KbDoc("k1", <<"K", "B">>, <<" ", "D", "e", "t", "\n", "a", "i", "l", "s">>)>>,
   <<KbDoc("k2", <<"F", "A", "Q">>, <<"L", "o", "g", "i", "n">>),
     KbDoc("k1", <<"K", "B">>, <<"D", "e", "t", "a", "i", "l", "s">>)>>}

VectorRow(id, org_id, similarity) ==
  [id |-> id, document_id |-> "d1", org_id |-> org_id, similarity |-> similarity,
   content_len |-> 100]
VectorData ==
  {<<>>, <<VectorRow("", "org1", <<1000>>)>>, <<VectorRow("c1", "org1", <<9000>>)>>,
   <<VectorRow("c2", "org2", NoSimilarity), VectorRow("c1", "org1", <<3000>>)>>}

VectorOff ==
  [enabled |-> FALSE, configured |-> FALSE, embed_ok |-> FALSE, rpc_ok |-> FALSE,
   data |-> <<>>, gen_raises |-> FALSE, llm_configured |-> FALSE, llm |-> Raises]
VectorCases ==
  {VectorOff,
   [VectorOff EXCEPT !.enabled = TRUE],
   [VectorOff EXCEPT !.enabled = TRUE, !.configured = TRUE],
   [VectorOff EXCEPT !.enabled = TRUE, !.configured = TRUE, !.embed_ok = TRUE]}
  \cup
  {[enabled |-> TRUE, configured |-> TRUE, embed_ok |-> TRUE, rpc_ok |-> TRUE,
    data |-> data, gen_raises |-> g[1], llm_configured |-> g[2], llm |-> g[3]] :
     data \in VectorData,
     g \in {<<TRUE, FALSE, Raises>>, <<FALSE, FALSE, Raises>>,
            <<FALSE, TRUE, Raises>>,
            <<FALSE, TRUE, [raises |-> FALSE, reply |-> KB_REPLY]>>}}

RepoFaults == {"none", "search_by_tags", "search_by_text"}

NotRetrieved == [called |-> FALSE, raised |-> FALSE, result |-> Miss, calls |-> <<>>]

RetrieveIdle ==
  /\ retArgs = [message |-> <<>>, org_id |-> None, tagged |-> <<>>,
                vector |-> VectorOff, keyword_docs |-> <<>>, text_docs |-> <<>>,
                fault |-> "none"]
  /\ retOut = NotRetrieved

RetrieveInit ==
  /\ retArgs \in [message : RetrieveMessages, org_id : {None, "org1"},
                  tagged : DocLists, vector : VectorCases, keyword_docs : DocLists,
                  text_docs : DocLists, fault : RepoFaults]
  /\ retOut = NotRetrieved

Retrieve ==
  /\ ~retOut.called
  /\ \E out \in {retrieve(retArgs.message, retArgs.org_id, retArgs)} :
       retOut' = [called |-> TRUE, raised |-> out.raised, result |-> out.result,
                  calls |-> out.calls]
  /\ UNCHANGED retArgs

(***************************************************************************)
(* answer_generator.py: call_chat_completions.  One call with one value of *)
(* LLM_RETRY_ATTEMPTS; each step is one pass of the for loop, the provider *)
(* answering each request with any response, or the transport raising.     *)
(* The back-off sleeps only delay the next pass and are left out.          *)
(***************************************************************************)
VARIABLES
  callCfg,      \* int(os.getenv("LLM_RETRY_ATTEMPTS", "2"))
  callPc,       \* "idle", "loop", "returned" or "raised"
  callAttempt,  \* the loop variable attempt
  callLog,      \* the responses to the requests sent so far
  callOut       \* the text returned or the name of the exception raised

callVars == <<callCfg, callPc, callAttempt, callLog, callOut>>

RETRYABLE_STATUSES == {429, 500, 502, 503, 504}

MaxAttempts == 2

AttemptSettings == -1..MaxAttempts

\* What requests.post may give: an exception of the transport (no
\* response), or a response with a status, a body that is JSON or is not,
\* and the content of its first choice.
TransportError ==
  [raises |-> TRUE, status_code |-> 0, is_json |-> FALSE, content |-> <<>>]

Responses ==
  {TransportError} \cup
  [raises : {FALSE}, status_code : {200}, is_json : BOOLEAN,
   content : {<<"o", "k">>, <<" ", "o", "k", "\n">>}] \cup
  [raises : {FALSE},
   status_code : {302, 400, 404, 501} \cup RETRYABLE_STATUSES,
   is_json : {FALSE}, content : {<<>>}]

NoCallResult == [text |-> <<>>, error |-> ""]

CallIdle ==
  /\ callCfg = 0
  /\ callPc = "idle"
  /\ callAttempt = 0
  /\ callLog = <<>>
  /\ callOut = NoCallResult

CallInit ==
  /\ callCfg \in AttemptSettings
  /\ callPc = "idle"
  /\ callAttempt = 0
  /\ callLog = <<>>
  /\ callOut = NoCallResult

CallRaise(error) ==
  /\ callPc' = "raised"
  /\ callOut' = [text |-> <<>>, error |-> error]

\* The call starts: the settings are read and the loop is entered.
CallChatCompletions ==
  /\ callPc = "idle"
  /\ callPc' = "loop"
  /\ callAttempt' = 0
  /\ UNCHANGED <<callCfg, callLog, callOut>>

\* range(attempts + 1) is exhausted: the statement after the loop raises.
CallLoopEnd ==
  /\ callPc = "loop"
  /\ callAttempt >= callCfg + 1
  /\ CallRaise("RuntimeError")
  /\ UNCHANGED <<callCfg, callAttempt, callLog>>

\* The condition of the retry branch.
retry_while_below(status_code, attempt, attempts) ==
  status_code \in RETRYABLE_STATUSES /\ attempt < attempts

\* One pass of the loop: a request is sent and its response handled.
CallAttempt ==
  /\ callPc = "loop"
  /\ callAttempt < callCfg + 1
  /\ \E response \in Responses :
       /\ callLog' = Append(callLog, response)
       /\ IF response.raises
            THEN CallRaise("RequestException") /\ UNCHANGED callAttempt
          ELSE IF retry_while_below(response.status_code, callAttempt,
                                    callCfg)
            THEN /\ callAttempt' = callAttempt + 1
                 /\ UNCHANGED <<callPc, callOut>>
          ELSE IF response.status_code >= 400
            THEN CallRaise("HTTPError") /\ UNCHANGED callAttempt
          ELSE IF ~response.is_json
            THEN CallRaise("ValueError") /\ UNCHANGED callAttempt
          ELSE /\ callPc' = "returned"
               /\ callOut' = [text |-> Strip(response.content), error |-> ""]
               /\ UNCHANGED callAttempt
  /\ UNCHANGED callCfg

CallNext == CallChatCompletions \/ CallLoopEnd \/ CallAttempt

(***************************************************************************)
(* service.py: the guardrail stage of handle_chat on its own.  The two     *)
(* checks are applied to one pre-guardrail state in the order of the code, *)
(* in the other order, and a second time to the result.  retrieval_source  *)
(* and top_similarity are read from run_metadata, which neither check      *)
(* changes.                                                                *)
(***************************************************************************)
VARIABLES
  grdArgs,   \* the pre-guardrail state
  grdOut     \* the outcomes of the applications, or NotApplied

grdVars == <<grdArgs, grdOut>>

Actions == {"reply", "ask_clarifying", "create_ticket", "escalate"}

PreGuardrailStates ==
  {[d |-> [NoDecision EXCEPT !.reply = KB_REPLY, !.action = a,
                             !.confidence = conf, !.citations = c,
                             !.decision_source = "kb",
                             !.decision_reason = kb_decision_reason(src)],
    retrieval_source |-> src, top_similarity |-> sim] :
     a \in Actions, conf \in {3000, 4000, 9000}, c \in CitationValues,
     src \in {"none", "vector", "document"},
     sim \in {NoSimilarity, <<1000>>, <<3500>>, <<9000>>}}

NotApplied ==
  [applied |-> FALSE, low_first |-> NoDecision, missing_first |-> NoDecision,
   twice |-> NoDecision]

\* Both checks, the low-similarity check first: the order of handle_chat.
guardrails(d, retrieval_source, top_similarity) ==
  missing_citations_guardrail(
    low_similarity_guardrail(d, retrieval_source, top_similarity,
                             REPLY_MIN_SIMILARITY))

\* Both checks, the missing-citations check first.
guardrails_swapped(d, retrieval_source, top_similarity) ==
  low_similarity_guardrail(missing_citations_guardrail(d), retrieval_source,
                           top_similarity, REPLY_MIN_SIMILARITY)

GuardrailIdle ==
  /\ grdArgs = [d |-> NoDecision, retrieval_source |-> "none",
                top_similarity |-> NoSimilarity]
  /\ grdOut = NotApplied

GuardrailInit ==
  /\ grdArgs \in PreGuardrailStates
  /\ grdOut = NotApplied

ApplyGuardrails ==
  /\ ~grdOut.applied
  /\ \E once \in {guardrails(grdArgs.d, grdArgs.retrieval_source,
                             grdArgs.top_similarity)} :
       grdOut' = [applied |-> TRUE,
                  low_first |-> once,
                  missing_first |->
                    guardrails_swapped(grdArgs.d, grdArgs.retrieval_source,
                                       grdArgs.top_similarity),
                  twice |-> guardrails(once, grdArgs.retrieval_source,
                                       grdArgs.top_similarity)]
  /\ UNCHANGED grdArgs

(***************************************************************************)
(* service.py: handle_chat on a conversation that has messages.  The       *)
(* stored messages are those earlier requests of the conversation left: a  *)
(* user message whose request failed after it was persisted, or a user     *)
(* message with the assistant's reply.                                     *)
(***************************************************************************)
Row(role, text) == [conversation_id |-> 1, role |-> role, content |-> text]

Histories ==
  {<<Row("user", <<"I", " ", "h", "a", "v", "e", " ", "a", " ", "b", "u", "g",
            " ", "w", "i", "t", "h", " ", "l", "o", "g", "i", "n">>)>>,
   <<Row("user", <<"o", "k">>)>>,
   <<Row("user", <<"H", "o", "w", " ", "d", "o", " ", "I", " ", "r", "e", "s",
            "e", "t", " ", "i", "t">>),
     Row("assistant", get_clarify_prompt)>>,
   <<Row("user", <<"H", "o", "w", " ", "d", "o", " ", "I", " ", "r", "e", "s",
            "e", "t", " ", "i", "t">>), Row("assistant", KB_REPLY)>>}

FollowUpInit ==
  /\ messages \in Histories
  /\ conversations = 1
  /\ requests = 0
  /\ chatOut = NoOutcome
  /\ chatReq = NoRequest

\* The next request, in the conversation or in a new one.
FollowUpNext == requests = 0 /\ ChatNext

(***************************************************************************)
(* service.py: build_retrieval_query applied to one message and one list   *)
(* of prior messages, with the context text build_context makes of them.   *)
(***************************************************************************)
VARIABLES
  qryArgs,   \* the message and the prior messages
  qryOut     \* the result of build_retrieval_query, or NotBuilt

qryVars == <<qryArgs, qryOut>>

MaxTurns == 3

TurnContents ==
  {<<>>, <<" ">>, <<"o", "k">>, <<"i", "t">>, get_clarify_prompt,
   get_clarify_prompt \o <<" ">>}
Turns == [role : {"user", "assistant"}, content : TurnContents]
TurnLists == UNION {[1..n -> Turns] : n \in 0..MaxTurns}
QueryMessages == {<<"g", "o">>, <<" ", "g", "o", " ">>}

NotBuilt ==
  [built |-> FALSE, context_text |-> <<>>, decision_message |-> <<>>,
   retrieval_query |-> <<>>]

QueryIdle ==
  /\ qryArgs = [message |-> <<>>, prior_messages |-> <<>>]
  /\ qryOut = NotBuilt

QueryInit ==
  /\ qryArgs \in [message : QueryMessages, prior_messages : TurnLists]
  /\ qryOut = NotBuilt

BuildRetrievalQuery ==
  /\ ~qryOut.built
  /\ \E context_text \in {conversation_context(qryArgs.prior_messages,
                                               CONTEXT_MAX_CHARS)} :
       \E q \in {build_retrieval_query(qryArgs.message, context_text,
                                       qryArgs.prior_messages)} :
         qryOut' = [built |-> TRUE, context_text |-> context_text,
                    decision_message |-> q.decision_message,
                    retrieval_query |-> q.retrieval_query]
  /\ UNCHANGED qryArgs

(***************************************************************************)
(* retriever_adapter.py and supabase_repos.py: the keyword step of         *)
(* DefaultRetriever.retrieve over a kb_documents table.  A document is its *)
(* org_id, title and content.                                              *)
(***************************************************************************)
VARIABLES
  kwArgs,    \* the message, the org_id and the rows of kb_documents
  kwOut      \* the keywords, the query sent and the rows returned

kwVars == <<kwArgs, kwOut>>

MaxDocs == 2
KEYWORD_LIMIT == 3

\* column ILIKE %query%, for a query without the wildcards % and _.
ilike(column, query) == Contains(Lower(column), Lower(query))

\* SupabaseKBRepo.search_by_text
search_by_text(kb_documents, org_id, query, limit) ==
  LET rows == SelectSeq(kb_documents, LAMBDA doc :
                /\ doc.org_id = org_id
                /\ (ilike(doc.title, query) \/ ilike(doc.content, query)))
  IN SubSeq(rows, 1, Min(limit, Len(rows)))

\* The keyword step of DefaultRetriever.retrieve, reached when the tag and
\* vector steps gave no hit.
keyword_search(message, org_id, kb_documents) ==
  LET query == Replace(Strip(message), ",", " ")
      keywords == extract_keywords(query)
      or_query == JoinWords(keywords)
  IN [called |-> TRUE, keywords |-> keywords,
      or_query |-> IF keywords # <<>> THEN or_query ELSE <<>>,
      docs |-> IF keywords # <<>>
                 THEN search_by_text(kb_documents,
                                     IF org_id = None THEN "" ELSE org_id,
                                     or_query, KEYWORD_LIMIT)
                 ELSE <<>>]

KeywordMessages ==
  {<<"h", "i">>,
   <<"r", "e", "s", "e", "t">>,
   <<"R", "e", "s", "e", "t", " ", "p", "a", "s", "s", "w", "o", "r", "d">>,
   <<"r", "e", "s", "e", "t", ",", " ", "m", "y", " ", "p", "a", "s", "s",
     "w", "o", "r", "d">>,
   <<"p", "l", "e", "a", "s", "e", " ", "h", "e", "l", "p", " ", "r", "e",
     "s", "e", "t", " ", "l", "o", "g", "i", "n", " ", "p", "a", "s", "s",
     "w", "o", "r", "d", " ", "t", "o", "d", "a", "y", " ", "t", "h", "a",
     "n", "k", "s">>}
KeywordTitles == {<<"K", "B">>, <<"P", "a", "s", "s", "w", "o", "r", "d">>}
KeywordContents ==
  {<<"D", "e", "t", "a", "i", "l", "s">>,
   <<"R", "e", "s", "e", "t", " ", "p", "a", "s", "s", "w", "o", "r", "d",
     " ", "h", "e", "r", "e">>,
   <<"r", "e", "s", "e", "t", " ", "i", "t">>}
KeywordDocs == [org_id : Orgs, title : KeywordTitles, content : KeywordContents]
KeywordTables == UNION {[1..n -> KeywordDocs] : n \in 0..MaxDocs}

NotSearched == [called |-> FALSE, keywords |-> <<>>, or_query |-> <<>>,
                docs |-> <<>>]

KeywordIdle ==
  /\ kwArgs = [message |-> <<>>, org_id |-> None, kb_documents |-> <<>>]
  /\ kwOut = NotSearched

KeywordInit ==
  /\ kwArgs \in [message : KeywordMessages, org_id : {None, "org1"},
                 kb_documents : KeywordTables]
  /\ kwOut = NotSearched

KeywordSearch ==
  /\ ~kwOut.called
  /\ kwOut' = keyword_search(kwArgs.message, kwArgs.org_id, kwArgs.kb_documents)
  /\ UNCHANGED kwArgs

(***************************************************************************)
(* ingest.py: two run_ingest calls for the same document running at the    *)
(* same time.  Each call is three store operations: the read of the stored *)
(* hashes, the delete and the insert; the operations of the two calls      *)
(* interleave in any order.  The content and the chunking parameters are   *)
(* the same for both calls and all operations succeed.                     *)
(***************************************************************************)
VARIABLES
  concDoc,     \* the content of the document, chunk_size and chunk_overlap
  concStore,   \* kb_chunks rows of the document
  concNextId,  \* next row id the store assigns
  concPc,      \* position of each call: start, delete, insert, done
  concLocal    \* locals of each call: force, existing_hashes, to_delete

concVars == <<concDoc, concStore, concNextId, concPc, concLocal>>

Calls2 == {1, 2}

\* The rows a completed run_ingest call leaves in an empty store.
ingested_rows(text, chunk_size, chunk_overlap) ==
  LET chunks == chunk_text(text, chunk_size, chunk_overlap)
      unique_map == unique_map_of(MapHash(chunks))
  IN rows_of(to_insert_hashes_of(TRUE, unique_map, <<>>), chunks, unique_map, 1)

NoCallLocal == [force |-> FALSE, existing |-> <<>>, to_delete |-> {}]

ConcIdle ==
  /\ concDoc = [content |-> <<>>, chunk_size |-> 1, chunk_overlap |-> 0]
  /\ concStore = {}
  /\ concNextId = 1
  /\ concPc = [p \in Calls2 |-> "done"]
  /\ concLocal = [p \in Calls2 |-> NoCallLocal]

\* The store is empty or holds the chunks of an earlier content.
ConcInit ==
  /\ concDoc \in [content : DocTexts, chunk_size : ChunkSizes,
                  chunk_overlap : ChunkOverlaps]
  /\ Len(chunk_text(concDoc.content, concDoc.chunk_size, concDoc.chunk_overlap)) > 0
  /\ \E old \in DocTexts :
       /\ concStore = ingested_rows(old, concDoc.chunk_size, concDoc.chunk_overlap)
       /\ concNextId = Cardinality(concStore) + 1
  /\ concPc = [p \in Calls2 |-> "start"]
  /\ concLocal = [p \in Calls2 |-> NoCallLocal]

ConcUniqueMap ==
  unique_map_of(MapHash(chunk_text(concDoc.content, concDoc.chunk_size,
                                   concDoc.chunk_overlap)))

\* Call p reads the stored hashes and computes to_delete.
ConcRead(p, force) ==
  /\ concPc[p] = "start"
  /\ \E existing \in existing_hashes_of(concStore) :
       LET to_delete == to_delete_of(force, existing, Keys(ConcUniqueMap))
       IN /\ concLocal' = [concLocal EXCEPT ![p] =
                             [force |-> force, existing |-> existing,
                              to_delete |-> to_delete]]
          /\ concPc' = [concPc EXCEPT ![p] =
                          IF to_delete # {} THEN "delete" ELSE "insert"]
  /\ UNCHANGED <<concDoc, concStore, concNextId>>

\* Call p deletes the rows of to_delete.
ConcDelete(p) ==
  /\ concPc[p] = "delete"
  /\ concStore' = {r \in concStore : r.id \notin concLocal[p].to_delete}
  /\ concPc' = [concPc EXCEPT ![p] = "insert"]
  /\ UNCHANGED <<concDoc, concNextId, concLocal>>

\* Call p embeds and inserts the chunks whose hashes it did not read.
ConcInsert(p) ==
  /\ concPc[p] = "insert"
  /\ LET hs == to_insert_hashes_of(concLocal[p].force, ConcUniqueMap,
                                   concLocal[p].existing)
         chunks == chunk_text(concDoc.content, concDoc.chunk_size,
                              concDoc.chunk_overlap)
         rows == rows_of(hs, chunks, ConcUniqueMap, concNextId)
     IN /\ concStore' = concStore \cup rows
        /\ concNextId' = concNextId + Len(hs)
  /\ concPc' = [concPc EXCEPT ![p] = "done"]
  /\ UNCHANGED <<concDoc, concLocal>>

ConcNext ==
  \/ \E p \in Calls2, force \in BOOLEAN : ConcRead(p, force)
  \/ \E p \in Calls2 : ConcDelete(p)
  \/ \E p \in Calls2 : ConcInsert(p)

(***************************************************************************)
(* ingest.py: chunk_text step by step.  One step splits the text and       *)
(* clamps the parameters; every further step is one pass of the while      *)
(* loop.  The call runs to completion, so a pass that can be taken is      *)
(* taken.                                                                  *)
(***************************************************************************)
VARIABLES
  stepArgs,    \* the arguments of the chunk_text call
  stepPc,      \* "start", "loop" or "done"
  stepLocal,   \* the locals words, size and overlap
  stepStart,   \* the local start
  stepChunks   \* the local chunks; the result when stepPc is "done"

stepVars == <<stepArgs, stepPc, stepLocal, stepStart, stepChunks>>

\* size = max(1, min(chunk_size, 400))
size_of(chunk_size) == Max(1, Min(chunk_size, MaxChunkSize))

\* overlap = max(0, min(chunk_overlap, size - 1))
overlap_unclamped(chunk_overlap, size) == Max(0, chunk_overlap)

overlap_of(chunk_overlap, size) == Max(0, Min(chunk_overlap, size - 1))

NoStepLocal == [words |-> <<>>, size |-> 1, overlap |-> 0]

StepIdle ==
  /\ stepArgs = [text |-> <<>>, chunk_size |-> 1, chunk_overlap |-> 0]
  /\ stepPc = "done"
  /\ stepLocal = NoStepLocal
  /\ stepStart = 0
  /\ stepChunks = <<>>

StepInit ==
  /\ stepArgs \in [text : ShortTexts, chunk_size : -1..4, chunk_overlap : -1..4]
  /\ stepPc = "start"
  /\ stepLocal = NoStepLocal
  /\ stepStart = 0
  /\ stepChunks = <<>>

\* chunk_text up to the while loop.
StepEnter ==
  /\ stepPc = "start"
  /\ \E words \in {Split(stepArgs.text)} :
       \E size \in {size_of(stepArgs.chunk_size)} :
         /\ stepLocal' = [words |-> words, size |-> size,
                          overlap |-> overlap_of(stepArgs.chunk_overlap, size)]
         /\ stepPc' = IF words = <<>> THEN "done" ELSE "loop"
  /\ UNCHANGED <<stepArgs, stepStart, stepChunks>>

\* One test of the while condition and, when it holds, one pass of the
\* loop body.  A call that has made more passes than there are words is not
\* followed further.
StepIterate ==
  /\ stepPc = "loop"
  /\ Len(stepChunks) <= Len(stepLocal.words)
  /\ IF ~(stepStart < Len(stepLocal.words))
       THEN /\ stepPc' = "done"
            /\ UNCHANGED <<stepStart, stepChunks>>
       ELSE LET end == Min(Len(stepLocal.words), stepStart + stepLocal.size)
                chunk == Strip(JoinWords(Slice(stepLocal.words, stepStart, end)))
            IN /\ stepChunks' = IF chunk # <<>> THEN Append(stepChunks, chunk)
                                ELSE stepChunks
               /\ IF end >= Len(stepLocal.words)
                    THEN stepPc' = "done" /\ UNCHANGED stepStart
                    ELSE /\ stepPc' = "loop"
                         /\ stepStart' = Max(0, end - stepLocal.overlap)
  /\ UNCHANGED <<stepArgs, stepLocal>>

StepNext == StepEnter \/ StepIterate

(***************************************************************************)
(* service.py with adapters/retriever_adapter.py: one request whose        *)
(* retriever is DefaultRetriever over a knowledge base without documents,  *)
(* so that only the vector strategy can hit.  The retriever is called with *)
(* the retrieval query, which is the message for a new conversation.       *)
(***************************************************************************)
VectorDeps ==
  [tagged : {<<>>}, vector : VectorCases, keyword_docs : {<<>>},
   text_docs : {<<>>}, fault : {"none"}]

\* fault: the dependency call of handle_chat that raises, if any.
VectorChat(message, org_id, deps, fault) ==
  \E r \in {retrieve(message, org_id, deps)} :
    HandleChat(message, 0, r.result, NoTicket,
               IF r.raised THEN "retrieve" ELSE fault)

VectorChatNext ==
  \E message \in ChatMessages, org_id \in {None, "org1"}, deps \in VectorDeps,
     fault \in Faults \ {"retrieve"} :
    VectorChat(message, org_id, deps, fault)

(***************************************************************************)
(* Specifications: the ingestion pipeline, and each pure function applied  *)
(* to inputs drawn by its initial condition.                               *)
(***************************************************************************)
vars == <<kbDocument, content, store, nextId, runs, ipc, ilocal, lastRun,
         selArgs, selected, genArgs, genOut, messages, conversations,
         requests, chatOut, chatReq, preMessage, preOut, chunkArgs, chunkOut,
         retArgs, retOut, callCfg, callPc, callAttempt, callLog, callOut,
         grdArgs, grdOut, qryArgs, qryOut, kwArgs, kwOut, concDoc, concStore,
         concNextId, concPc, concLocal, stepArgs, stepPc, stepLocal,
         stepStart, stepChunks>>

IngestIdle ==
  /\ kbDocument = NoDocument
  /\ content = <<>>
  /\ store = {}
  /\ nextId = 1
  /\ runs = 0
  /\ ipc = "idle"
  /\ ilocal = NoLocal
  /\ lastRun = NoRun

Init == IngestInit /\ SelectIdle /\ GenIdle /\ ChatIdle /\ PrecheckIdle /\
         ChunkIdle /\ RetrieveIdle /\ CallIdle /\ GuardrailIdle /\
         QueryIdle /\ KeywordIdle /\ ConcIdle /\ StepIdle
Next == IngestNext /\ UNCHANGED <<selVars, genVars, chatVars, preVars,
         chunkVars, retVars, callVars, grdVars, qryVars, kwVars, concVars,
         stepVars>>
Spec == Init /\ [][Next]_vars

InitSelect == SelectInit /\ IngestIdle /\ GenIdle /\ ChatIdle /\
         PrecheckIdle /\ ChunkIdle /\ RetrieveIdle /\ CallIdle /\
         GuardrailIdle /\ QueryIdle /\ KeywordIdle /\ ConcIdle /\ StepIdle
NextSelect == SelectChunks /\ UNCHANGED <<ingestVars, genVars, chatVars,
         preVars, chunkVars, retVars, callVars, grdVars, qryVars, kwVars,
         concVars, stepVars>>
SpecSelect == InitSelect /\ [][NextSelect]_vars

InitGenerate == GenInit /\ IngestIdle /\ SelectIdle /\ ChatIdle /\
         PrecheckIdle /\ ChunkIdle /\ RetrieveIdle /\ CallIdle /\
         GuardrailIdle /\ QueryIdle /\ KeywordIdle /\ ConcIdle /\ StepIdle
NextGenerate == GenerateAnswer /\ UNCHANGED <<ingestVars, selVars, chatVars,
         preVars, chunkVars, retVars, callVars, grdVars, qryVars, kwVars,
         concVars, stepVars>>
SpecGenerate == InitGenerate /\ [][NextGenerate]_vars

InitChat == ChatInit /\ IngestIdle /\ SelectIdle /\ GenIdle /\
         PrecheckIdle /\ ChunkIdle /\ RetrieveIdle /\ CallIdle /\
         GuardrailIdle /\ QueryIdle /\ KeywordIdle /\ ConcIdle /\ StepIdle
NextChat == ChatNext /\ UNCHANGED <<ingestVars, selVars, genVars, preVars,
         chunkVars, retVars, callVars, grdVars, qryVars, kwVars, concVars,
         stepVars>>
SpecChat == InitChat /\ [][NextChat]_vars

InitPrecheck == PrecheckInit /\ IngestIdle /\ SelectIdle /\ GenIdle /\
         ChatIdle /\ ChunkIdle /\ RetrieveIdle /\ CallIdle /\
         GuardrailIdle /\ QueryIdle /\ KeywordIdle /\ ConcIdle /\ StepIdle
NextPrecheck == PrecheckAction /\ UNCHANGED <<ingestVars, selVars, genVars,
         chatVars, chunkVars, retVars, callVars, grdVars, qryVars, kwVars,
         concVars, stepVars>>
SpecPrecheck == InitPrecheck /\ [][NextPrecheck]_vars

InitChunk == ChunkInit /\ IngestIdle /\ SelectIdle /\ GenIdle /\ ChatIdle /\
         PrecheckIdle /\ RetrieveIdle /\ CallIdle /\ GuardrailIdle /\
         QueryIdle /\ KeywordIdle /\ ConcIdle /\ StepIdle
NextChunk == ChunkText /\ UNCHANGED <<ingestVars, selVars, genVars, chatVars,
         preVars, retVars, callVars, grdVars, qryVars, kwVars, concVars,
         stepVars>>
SpecChunk == InitChunk /\ [][NextChunk]_vars

InitRetrieve == RetrieveInit /\ IngestIdle /\ SelectIdle /\ GenIdle /\
         ChatIdle /\ PrecheckIdle /\ ChunkIdle /\ CallIdle /\
         GuardrailIdle /\ QueryIdle /\ KeywordIdle /\ ConcIdle /\ StepIdle
NextRetrieve == Retrieve /\ UNCHANGED <<ingestVars, selVars, genVars,
         chatVars, preVars, chunkVars, callVars, grdVars, qryVars, kwVars,
         concVars, stepVars>>
SpecRetrieve == InitRetrieve /\ [][NextRetrieve]_vars

InitCall == CallInit /\ IngestIdle /\ SelectIdle /\ GenIdle /\ ChatIdle /\
         PrecheckIdle /\ ChunkIdle /\ RetrieveIdle /\ GuardrailIdle /\
         QueryIdle /\ KeywordIdle /\ ConcIdle /\ StepIdle
NextCall == CallNext /\ UNCHANGED <<ingestVars, selVars, genVars, chatVars,
         preVars, chunkVars, retVars, grdVars, qryVars, kwVars, concVars,
         stepVars>>
SpecCall == InitCall /\ [][NextCall]_vars

InitGuardrail == GuardrailInit /\ IngestIdle /\ SelectIdle /\ GenIdle /\
         ChatIdle /\ PrecheckIdle /\ ChunkIdle /\ RetrieveIdle /\ CallIdle /\
         QueryIdle /\ KeywordIdle /\ ConcIdle /\ StepIdle
NextGuardrail == ApplyGuardrails /\ UNCHANGED <<ingestVars, selVars, genVars,
         chatVars, preVars, chunkVars, retVars, callVars, qryVars, kwVars,
         concVars, stepVars>>
SpecGuardrail == InitGuardrail /\ [][NextGuardrail]_vars

InitQuery == QueryInit /\ IngestIdle /\ SelectIdle /\ GenIdle /\ ChatIdle /\
         PrecheckIdle /\ ChunkIdle /\ RetrieveIdle /\ CallIdle /\
         GuardrailIdle /\ KeywordIdle /\ ConcIdle /\ StepIdle
NextQuery == BuildRetrievalQuery /\ UNCHANGED <<ingestVars, selVars, genVars,
         chatVars, preVars, chunkVars, retVars, callVars, grdVars, kwVars,
         concVars, stepVars>>
SpecQuery == InitQuery /\ [][NextQuery]_vars

InitKeyword == KeywordInit /\ IngestIdle /\ SelectIdle /\ GenIdle /\
         ChatIdle /\ PrecheckIdle /\ ChunkIdle /\ RetrieveIdle /\ CallIdle /\
         GuardrailIdle /\ QueryIdle /\ ConcIdle /\ StepIdle
NextKeyword == KeywordSearch /\ UNCHANGED <<ingestVars, selVars, genVars,
         chatVars, preVars, chunkVars, retVars, callVars, grdVars, qryVars,
         concVars, stepVars>>
SpecKeyword == InitKeyword /\ [][NextKeyword]_vars

InitConcurrent == ConcInit /\ IngestIdle /\ SelectIdle /\ GenIdle /\
         ChatIdle /\ PrecheckIdle /\ ChunkIdle /\ RetrieveIdle /\ CallIdle /\
         GuardrailIdle /\ QueryIdle /\ KeywordIdle /\ StepIdle
NextConcurrent == ConcNext /\ UNCHANGED <<ingestVars, selVars, genVars,
         chatVars, preVars, chunkVars, retVars, callVars, grdVars, qryVars,
         kwVars, stepVars>>
SpecConcurrent == InitConcurrent /\ [][NextConcurrent]_vars

InitStep == StepInit /\ IngestIdle /\ SelectIdle /\ GenIdle /\ ChatIdle /\
         PrecheckIdle /\ ChunkIdle /\ RetrieveIdle /\ CallIdle /\
         GuardrailIdle /\ QueryIdle /\ KeywordIdle /\ ConcIdle
NextStep == StepNext /\ UNCHANGED <<ingestVars, selVars, genVars, chatVars,
         preVars, chunkVars, retVars, callVars, grdVars, qryVars, kwVars,
         concVars>>
SpecStep == InitStep /\ [][NextStep]_vars /\ WF_vars(NextStep)

InitFollowUp == FollowUpInit /\ IngestIdle /\ SelectIdle /\ GenIdle /\
         PrecheckIdle /\ ChunkIdle /\ RetrieveIdle /\ CallIdle /\
         GuardrailIdle /\ QueryIdle /\ KeywordIdle /\ ConcIdle /\ StepIdle
NextFollowUp == FollowUpNext /\ UNCHANGED <<ingestVars, selVars, genVars,
         preVars, chunkVars, retVars, callVars, grdVars, qryVars, kwVars,
         concVars, stepVars>>
SpecFollowUp == InitFollowUp /\ [][NextFollowUp]_vars

InitVectorChat == ChatInit /\ IngestIdle /\ SelectIdle /\ GenIdle /\
         PrecheckIdle /\ ChunkIdle /\ RetrieveIdle /\ CallIdle /\
         GuardrailIdle /\ QueryIdle /\ KeywordIdle /\ ConcIdle /\ StepIdle
NextVectorChat == VectorChatNext /\ UNCHANGED <<ingestVars, selVars, genVars,
         preVars, chunkVars, retVars, callVars, grdVars, qryVars, kwVars,
         concVars, stepVars>>
SpecVectorChat == InitVectorChat /\ [][NextVectorChat]_vars

(***************************************************************************)
(* Properties of the ingestion pipeline.                                   *)
(***************************************************************************)
\* The distinct chunk hashes of a content under the given parameters,
\* computed from the chunk list alone.
NewHashes(text, chunk_size, chunk_overlap) ==
  LET chunks == chunk_text(text, chunk_size, chunk_overlap)
  IN {hash_chunk(chunks[k]) : k \in 1..Len(chunks)}

StoredHashes == {r.chunk_hash : r \in store}
Completed == ipc = "idle" /\ lastRun.status = "ok"

\* C1: the second of two completed non-force run_ingest calls in a row on the
\* same content, chunk_size and chunk_overlap returns chunks_inserted = 0 and
\* chunks_deleted = 0, calls provider.embed not at all and leaves the stored
\* chunks as they were.
IdempotentReingest ==
  (Completed /\ lastRun.repeats) =>
    /\ lastRun.inserted = 0
    /\ lastRun.deleted = 0
    /\ lastRun.embedCalls = 0
    /\ store = lastRun.before

IdempotentReingestWitness ==
  Completed /\ lastRun.repeats /\ Cardinality(store) >= 2

\* C2: a completed run_ingest with force=True reports as chunks_deleted the
\* number of chunks stored before the call and as chunks_inserted the number
\* of distinct chunk hashes of the content, whatever hashes the two sets
\* share; none of the rows stored before the call remains and the store holds
\* exactly the inserted rows.
ForceReplacesAll ==
  (Completed /\ lastRun.force) =>
    /\ lastRun.deleted = Cardinality(lastRun.before)
    /\ lastRun.inserted =
         Cardinality(NewHashes(lastRun.text, lastRun.size, lastRun.overlap))
    /\ \A r \in store : \A b \in lastRun.before : r.id # b.id
    /\ Cardinality(store) = lastRun.inserted

ForceReplacesAllWitness ==
  /\ Completed /\ lastRun.force
  /\ \E b \in lastRun.before : b.chunk_hash \in StoredHashes
  /\ \E b \in lastRun.before : b.chunk_hash \notin StoredHashes

\* C3: no two chunks stored for the document have the same chunk_hash, at any
\* point of any sequence of run_ingest calls from the empty store.
ChunkHashUnique ==
  \A r1 \in store : \A r2 \in store : r1.chunk_hash = r2.chunk_hash => r1.id = r2.id

ChunkHashUniqueWitness ==
  /\ Completed
  /\ store # {}
  /\ Len(chunk_text(lastRun.text, lastRun.size, lastRun.overlap)) > lastRun.total

\* C4: a run_ingest call that completes after a call with the same content and
\* parameters stopped between its delete and the end of its insert leaves the
\* stored hash set equal to the distinct hashes of the new chunks, in force
\* and in non-force mode.
ReentrantConverges ==
  (Completed /\ lastRun.resumes) =>
    StoredHashes = NewHashes(lastRun.text, lastRun.size, lastRun.overlap)

ReentrantConvergesWitness ==
  /\ Completed /\ lastRun.resumes /\ ~lastRun.force
  /\ lastRun.inserted > 0
  /\ lastRun.before # {}

\* C18: Non-force diff.  A completed run_ingest with force=False has deleted
\* exactly the rows stored before the call whose hash is not a hash of the
\* new content, has passed to provider.embed exactly the distinct new chunks
\* whose hash was not stored, has inserted exactly one row for each of them,
\* and has left every stored row with a matching hash as it was; afterwards
\* the stored hash set is the set of distinct new hashes.
NonForceDiff ==
  (Completed /\ ~lastRun.force) =>
    LET new == NewHashes(lastRun.text, lastRun.size, lastRun.overlap)
        old == {b.chunk_hash : b \in lastRun.before}
        added == store \ lastRun.before
    IN /\ lastRun.before \ store = {b \in lastRun.before : b.chunk_hash \notin new}
       /\ lastRun.deleted = Cardinality(lastRun.before \ store)
       /\ \A b \in lastRun.before : b.chunk_hash \in new => b \in store
       /\ {hash_chunk(lastRun.embedded[k]) : k \in 1..Len(lastRun.embedded)}
            = new \ old
       /\ Len(lastRun.embedded) = Cardinality(new \ old)
       /\ lastRun.embedCalls = IF new \subseteq old THEN 0 ELSE 1
       /\ {r.chunk_hash : r \in added} = new \ old
       /\ Cardinality(added) = Cardinality(new \ old)
       /\ lastRun.inserted = Cardinality(added)
       /\ \A r \in added : \E k \in 1..Len(lastRun.embedded) :
            r.content = lastRun.embedded[k]
       /\ StoredHashes = new

\* A non-force call that deleted a stale row, kept a matching one and
\* inserted a new one.
NonForceDiffWitness ==
  /\ Completed /\ ~lastRun.force
  /\ \E b \in lastRun.before : b \notin store
  /\ \E b \in lastRun.before : b \in store
  /\ \E r \in store : r \notin lastRun.before
  /\ lastRun.embedCalls = 1

\* The position (from 0) of the first chunk with the hash, -1 if there is
\* none.
FirstOccurrence(chunks, chunk_hash) ==
  IF \E k \in 1..Len(chunks) : hash_chunk(chunks[k]) = chunk_hash
    THEN (CHOOSE k \in 1..Len(chunks) :
            /\ hash_chunk(chunks[k]) = chunk_hash
            /\ \A j \in 1..(k - 1) : hash_chunk(chunks[j]) # chunk_hash) - 1
    ELSE -1

LastChunks == chunk_text(lastRun.text, lastRun.size, lastRun.overlap)

\* C19: chunk_index reflects chunk position.  After a completed run_ingest
\* call, whatever calls and content changes came before, every stored chunk
\* has chunk_index equal to the position of the first occurrence of its hash
\* in the chunk list of the document's current content.
ChunkIndexCurrent ==
  Completed =>
    \A r \in store : r.chunk_index = FirstOccurrence(LastChunks, r.chunk_hash)

\* C19 as amended: every chunk a completed run_ingest call inserted has
\* chunk_index equal to the position of the first occurrence of its hash in
\* the chunk list of the content at that call, which is every stored chunk
\* after a call with force=True; a chunk kept from before the call keeps
\* the chunk_index it had.
ChunkIndexAtInsert ==
  Completed =>
    /\ \A r \in store \ lastRun.before :
         r.chunk_index = FirstOccurrence(LastChunks, r.chunk_hash)
    /\ lastRun.force =>
         \A r \in store : r.chunk_index = FirstOccurrence(LastChunks, r.chunk_hash)
    /\ \A r \in store : \A b \in lastRun.before :
         r.id = b.id => r.chunk_index = b.chunk_index

\* A call that inserted a chunk whose hash first occurs after a repeated
\* chunk, so that its chunk_index differs from its rank among the distinct
\* chunks, and that kept a chunk from before.
ChunkIndexAtInsertWitness ==
  /\ Completed /\ ~lastRun.force
  /\ \E r \in store \ lastRun.before : r.chunk_index = 2
  /\ \E r \in store : r \in lastRun.before
  /\ lastRun.total = 2

(***************************************************************************)
(* Properties of select_chunks.                                            *)
(***************************************************************************)
Occurrences(sel, field, value) ==
  Cardinality({k \in 1..Len(sel) : sel[k][field] = value})

\* C5: for every candidate list, max_chunks and max_per_doc, the result of
\* select_chunks has at most max_chunks entries, no chunk id twice and no
\* document id more than max_per_doc times.
SelectionInvariants ==
  selected # NotCalled =>
    /\ Len(selected) <= selArgs.max_chunks
    /\ \A c \in ChunkIds : Occurrences(selected, "id", c) <= 1
    /\ \A d \in DocIds \ {""} :
         Occurrences(selected, "document_id", d) <= selArgs.max_per_doc

(***************************************************************************)
(* Properties of generate_answer.                                          *)
(***************************************************************************)
\* C10, as claimed: generate_answer returns a confidence in [0.05, 0.95] on
\* every path, and estimate_confidence a value in [0, 0.95].
ConfidenceBounds ==
  genOut # NoAnswer =>
    /\ genOut.confidence >= 500 /\ genOut.confidence <= 9500
    /\ estimate_confidence(genArgs.chunks) >= 0
    /\ estimate_confidence(genArgs.chunks) <= 9500

\* C10, amended: generate_answer returns a confidence in [0, 0.95] on every
\* path and in [0.05, 0.95] after a successful generation; estimate_confidence
\* returns a value in [0, 0.95].
ConfidenceBoundsAmended ==
  genOut # NoAnswer =>
    /\ genOut.confidence >= 0 /\ genOut.confidence <= 9500
    /\ genOut.source = "llm" => genOut.confidence >= 500
    /\ estimate_confidence(genArgs.chunks) >= 0
    /\ estimate_confidence(genArgs.chunks) <= 9500

ConfidenceBoundsWitness ==
  /\ genOut # NoAnswer
  /\ genOut.source = "llm"
  /\ genOut.confidence = 500
  /\ estimate_confidence(genArgs.chunks) = 0

(***************************************************************************)
(* Properties of handle_chat, over the outcome of the last request.        *)
(***************************************************************************)
Returned == chatOut.status = "ok"
Failed == chatOut.status = "error"
CallCount(out, name) == Cardinality({k \in 1..Len(out.calls) : out.calls[k] = name})
HasTicketKeyword(message) ==
  \E keyword \in ticket_keywords : Contains(Lower(Strip(message)), keyword)

\* C6: whenever the decision before the guardrail stage is a reply without
\* citations (None or an empty list), the returned outcome asks for
\* clarification, carries no citations and has confidence at most 0.4; no
\* returned outcome is a reply without citations.
MissingCitationsForced ==
  Returned =>
    /\ (chatOut.pre.action = "reply" /\ ~HasCitations(chatOut.pre.citations)) =>
          /\ chatOut.response.action = "ask_clarifying"
          /\ chatOut.response.citations = NoCitations
          /\ chatOut.response.confidence <= 4000
    /\ ~(chatOut.response.action = "reply"
           /\ ~HasCitations(chatOut.response.citations))

MissingCitationsForcedWitness ==
  /\ Returned
  /\ chatOut.pre.action = "reply"
  /\ chatOut.pre.citations = [none |-> FALSE, items |-> <<>>]
  /\ chatOut.pre.confidence = 9000
  /\ chatOut.response.guardrail = "missing_citations"
  /\ chatOut.response.action = "ask_clarifying"
  /\ chatOut.response.confidence = 4000

\* C7: when the retriever returns a vector hit whose top similarity is below
\* the floor, the returned outcome asks for clarification with guardrail
\* low_similarity, decision reason guardrail_low_similarity, no citations,
\* the smaller of the retriever's confidence and 0.4, and the clarification
\* prompt as reply.
BelowFloor(kb_reply) ==
  /\ kb_reply.hit
  /\ kb_reply.retrieval_source = "vector"
  /\ kb_reply.top_similarity # NoSimilarity
  /\ kb_reply.top_similarity[1] < REPLY_MIN_SIMILARITY

LowSimilarityGuardrail ==
  (Returned /\ BelowFloor(chatOut.retrieved)) =>
    /\ chatOut.response.action = "ask_clarifying"
    /\ chatOut.response.guardrail = "low_similarity"
    /\ chatOut.response.decision_reason = "guardrail_low_similarity"
    /\ chatOut.response.citations = NoCitations
    /\ chatOut.response.confidence = Min(chatOut.retrieved.confidence, 4000)
    /\ chatOut.response.reply = get_clarify_prompt

LowSimilarityGuardrailWitness ==
  /\ Returned
  /\ BelowFloor(chatOut.retrieved)
  /\ HasCitations(chatOut.retrieved.citations)
  /\ chatOut.retrieved.confidence = 3000
  /\ chatOut.response.confidence = 3000
  /\ chatOut.response.guardrail = "low_similarity"

\* C8: a request whose message contains a ticket keyword, with or without a
\* #tag, ends with action create_ticket and confidence 0.35 and never calls
\* the retriever, unless one of its dependencies fails.
DependencyFailures ==
  {"create_conversation", "create_message", "retrieve", "create_ticket",
   "ticket_insert_failed"}

TicketKeywordPriority ==
  (chatOut.status # "none" /\ HasTicketKeyword(chatOut.message)) =>
    /\ ~Calls(chatOut, "retrieve")
    /\ Failed => chatOut.cause \in DependencyFailures
    /\ Returned => /\ chatOut.response.action = "create_ticket"
                   /\ chatOut.response.confidence = 3500

IsBlank(message) == \A k \in 1..Len(message) : IsSpace(message[k])
HasHashTag(message) ==
  \E k \in 1..Len(Split(message)) :
    Split(message)[k][1] = "#" /\ Len(Split(message)[k]) > 1
Decides(result, action, confidence) ==
  Len(result) = 3 /\ result[2] = action /\ result[3] = confidence

\* C11: the rules of precheck_action apply in a fixed order and the first
\* that applies decides: a blank message asks for clarification with 0.2;
\* else a ticket keyword creates a ticket with 0.35; else a #tag gives no
\* decision, also for fewer than 4 words; else fewer than 4 words asks for
\* clarification with 0.45; otherwise no decision.
PrecheckRuleOrder ==
  preOut.called =>
    IF IsBlank(preMessage) THEN Decides(preOut.result, "ask_clarifying", 2000)
    ELSE IF HasTicketKeyword(preMessage)
      THEN Decides(preOut.result, "create_ticket", 3500)
    ELSE IF HasHashTag(preMessage) THEN Len(preOut.result) = 0
    ELSE IF Len(Split(preMessage)) < 4
      THEN Decides(preOut.result, "ask_clarifying", 4500)
    ELSE Len(preOut.result) = 0

PrecheckRuleOrderWitness ==
  /\ preOut.called
  /\ ~HasTicketKeyword(preMessage)
  /\ HasHashTag(preMessage)
  /\ Len(Split(preMessage)) < 4
  /\ Len(preOut.result) = 0

(***************************************************************************)
(* Properties of chunk_text.                                               *)
(***************************************************************************)
ClampedSize(chunk_size) ==
  IF chunk_size < 1 THEN 1 ELSE IF chunk_size > 400 THEN 400 ELSE chunk_size
ClampedOverlap(chunk_overlap, size) ==
  IF chunk_overlap < 0 THEN 0
  ELSE IF chunk_overlap > size - 1 THEN size - 1 ELSE chunk_overlap

\* The words of the chunks with the first `overlap` words of every chunk but
\* the first dropped, concatenated.
RECURSIVE Reassemble(_, _, _)
Reassemble(chunks, k, overlap) ==
  IF k > Len(chunks) THEN <<>>
  ELSE (IF k = 1 THEN Split(chunks[k])
        ELSE SubSeq(Split(chunks[k]), overlap + 1, Len(Split(chunks[k]))))
         \o Reassemble(chunks, k + 1, overlap)

WindowsOf(words, size, overlap, chunks) ==
  LET n == Len(words)
      step == size - overlap
      first(k) == (k - 1) * step
      last(k) == Min(n, first(k) + size)
  IN /\ Len(chunks) >= 1
     /\ \A k \in 1..Len(chunks) :
          chunks[k] = JoinWords(SubSeq(words, first(k) + 1, last(k)))
     /\ last(Len(chunks)) = n
     /\ \A k \in 1..(Len(chunks) - 1) : last(k) - first(k + 1) = overlap
     /\ Reassemble(chunks, 1, overlap) = words
     /\ n = 1 => Len(chunks) = 1

\* C12: for a text of n >= 1 words, with size clamped to [1, 400] and overlap
\* to [0, size - 1], chunk k of chunk_text is words[k*(size-overlap) :
\* min(n, k*(size-overlap)+size)], the last chunk ends at word n, consecutive
\* chunks share exactly overlap words, and the chunks without the first
\* overlap words of every chunk but the first concatenate to the words; an
\* empty text gives no chunk and one word gives one chunk.
ChunkWindows ==
  chunkOut.called =>
    \E words \in {Split(chunkArgs.text)} :
      \E size \in {ClampedSize(chunkArgs.chunk_size)} :
        \E overlap \in {ClampedOverlap(chunkArgs.chunk_overlap, size)} :
          IF words = <<>> THEN chunkOut.chunks = <<>>
          ELSE WindowsOf(words, size, overlap, chunkOut.chunks)

ChunkWindowsWitness ==
  /\ chunkOut.called
  /\ Len(Split(chunkArgs.text)) = 5
  /\ chunkArgs.chunk_size = 3
  /\ chunkArgs.chunk_overlap = 1
  /\ Len(chunkOut.chunks) = 2

ChunkWindowsClampWitness ==
  /\ chunkOut.called
  /\ chunkArgs.text = LongText
  /\ chunkArgs.chunk_size = 2 * MaxChunkSize
  /\ chunkArgs.chunk_overlap = MaxChunkSize
  /\ Len(chunkOut.chunks) = 2

(***************************************************************************)
(* Properties of DefaultRetriever.retrieve.                                *)
(***************************************************************************)
RetQuery == Replace(Strip(retArgs.message), ",", " ")
TagHit == HasHashTag(RetQuery) /\ retArgs.tagged # <<>>
VectorHit ==
  /\ retArgs.vector.enabled /\ retArgs.vector.configured
  /\ retArgs.vector.embed_ok /\ retArgs.vector.rpc_ok
  /\ \E k \in 1..Len(retArgs.vector.data) : retArgs.vector.data[k].id # ""
  /\ ~retArgs.vector.gen_raises
KeywordHit == extract_keywords(RetQuery) # <<>> /\ retArgs.keyword_docs # <<>>
StrategyRank(call) ==
  CASE call = "search_by_tags" -> 1
    [] call \in {"get_embedding_provider", "embed", "match_kb_chunks",
                 "generate_answer"} -> 2
    [] call = "search_by_text_keywords" -> 3
    [] call = "search_by_text_query" -> 4

\* C13: retrieve tries tag match, vector match, keyword match and the
\* full-text fallback in this order and returns the result of the first
\* strategy that hits without calling a later one; a vector strategy that is
\* disabled, has no provider, or raises during embed, search or generation
\* is no hit and the request goes on with keyword match; a message that is
\* empty after trimming returns None before any strategy runs.
RetrievalStrategyOrder ==
  retOut.called =>
    /\ \A i, j \in 1..Len(retOut.calls) :
         i < j => StrategyRank(retOut.calls[i]) <= StrategyRank(retOut.calls[j])
    /\ retArgs.fault = "none" => ~retOut.raised
    /\ Strip(retArgs.message) = <<>> =>
         ~retOut.raised /\ ~retOut.result.hit /\ retOut.calls = <<>>
    /\ (Strip(retArgs.message) # <<>> /\ ~retOut.raised) =>
         IF TagHit
           THEN /\ retOut.result = DocumentHit(retArgs.tagged)
                /\ retOut.calls = <<"search_by_tags">>
         ELSE IF VectorHit
           THEN /\ retOut.result.hit
                /\ retOut.result.retrieval_source = "vector"
                /\ \A k \in 1..Len(retOut.calls) : StrategyRank(retOut.calls[k]) <= 2
         ELSE IF KeywordHit
           THEN /\ retOut.result = DocumentHit(retArgs.keyword_docs)
                /\ retOut.calls[Len(retOut.calls)] = "search_by_text_keywords"
         ELSE /\ retOut.calls[Len(retOut.calls)] = "search_by_text_query"
              /\ retOut.result = IF retArgs.text_docs # <<>>
                                   THEN DocumentHit(retArgs.text_docs) ELSE Miss

RetrievalStrategyOrderWitness ==
  /\ retOut.called
  /\ retArgs.vector.enabled /\ retArgs.vector.configured /\ ~retArgs.vector.embed_ok
  /\ retOut.calls = <<"search_by_tags", "get_embedding_provider", "embed",
                      "search_by_text_keywords">>
  /\ retOut.result = DocumentHit(retArgs.keyword_docs)

(***************************************************************************)
(* call_chat_completions                                                   *)
(***************************************************************************)
CallEnded == callPc \in {"returned", "raised"}

Retryable(response) ==
  ~response.raises /\ response.status_code \in RETRYABLE_STATUSES

\* C14: Bounded retry.  A call that has ended has sent at least one and at
\* most LLM_RETRY_ATTEMPTS+1 requests; every request but the last was
\* answered with status 429, 500, 502, 503 or 504; a call whose last
\* response has another status >= 400 has raised, one whose last response
\* is a successful one has returned its content, and one whose every
\* attempt was answered with a retryable status has raised; a call that
\* has not ended has made at most LLM_RETRY_ATTEMPTS+1 passes, so it ends.
BoundedRetry ==
  /\ Len(callLog) <= Max(callCfg + 1, 0)
  /\ \A k \in 1..(Len(callLog) - 1) : Retryable(callLog[k])
  /\ callPc = "loop" => /\ Len(callLog) = callAttempt
                        /\ \A k \in 1..Len(callLog) : Retryable(callLog[k])
                        /\ callAttempt <= callCfg + 1
  /\ CallEnded =>
       /\ Len(callLog) >= 1
       /\ Len(callLog) <= callCfg + 1
       /\ LET last == callLog[Len(callLog)]
          IN /\ (~last.raises /\ last.status_code >= 400)
                  => callPc = "raised" /\ callOut.error = "HTTPError"
             /\ (~last.raises /\ last.status_code < 400 /\ last.is_json)
                  => /\ callPc = "returned"
                     /\ callOut.text = Strip(last.content)
             /\ Retryable(last) => Len(callLog) = callCfg + 1

(***************************************************************************)
(* generate_answer: tenant isolation                                       *)
(***************************************************************************)
Answered == genOut.source # "not_called"

\* An evidence item the tenant org_id may see.
Visible(item, org_id, allow_global) ==
  item.org_id = org_id \/ (item.org_id = None /\ allow_global)

\* C15: Tenant isolation of generation.  For a request with org_id set,
\* every evidence item in the context sent to the completion provider has
\* the requesting org_id, or has no org_id while ALLOW_GLOBAL_CHUNKS is
\* set; and when none of the evidence passes the filter, the answer is the
\* clarification prompt with confidence 0.4 and no provider call is made.
TenantIsolation ==
  (Answered /\ genArgs.org_id # None) =>
    /\ \A k \in 1..Len(genOut.context) :
         Visible(genOut.context[k], genArgs.org_id, genArgs.allow_global)
    /\ (\A k \in 1..Len(genArgs.chunks) :
          ~Visible(genArgs.chunks[k], genArgs.org_id, genArgs.allow_global))
         => /\ genOut.reply = get_clarify_prompt
            /\ genOut.confidence = 4000
            /\ genOut.llm_calls = 0

\* A tenant request whose evidence holds an item of another org and a
\* global item, answered with a provider call.
TenantIsolationWitness ==
  /\ Answered
  /\ genArgs.org_id = "org1"
  /\ \E k \in 1..Len(genArgs.chunks) :
       genArgs.chunks[k].org_id \notin {"org1", None}
  /\ genOut.llm_calls = 1
  /\ Len(genOut.context) = 1
  /\ Len(genArgs.chunks) = 2

\* A tenant request all of whose evidence is filtered out.
TenantIsolationEmptyWitness ==
  /\ Answered
  /\ genArgs.org_id = "org1"
  /\ ~genArgs.allow_global
  /\ Len(genArgs.chunks) = 2
  /\ genArgs.chunks[1].org_id = None
  /\ genArgs.chunks[2].org_id = "org2"
  /\ genArgs.configured
  /\ genOut.source = "filtered_empty"

(***************************************************************************)
(* handle_chat: decision provenance                                        *)
(***************************************************************************)
DecisionSources == {"precheck", "kb", "heuristic", "guardrail"}

\* C16: Decision provenance.  Every outcome returned by handle_chat carries
\* a decision_source among precheck, kb, heuristic and guardrail and a
\* decision_reason that is not empty, and the default decision_reason
\* unspecified is never returned.
DecisionProvenance ==
  Returned =>
    /\ chatOut.response.decision_source \in DecisionSources
    /\ chatOut.response.decision_reason \notin {None, ""}
    /\ chatOut.response.decision_reason # "unspecified"

\* A returned outcome of a document hit that no guardrail changed.
DecisionProvenanceWitness ==
  /\ Returned
  /\ chatOut.retrieved.hit
  /\ chatOut.retrieved.retrieval_source = "document"
  /\ chatOut.response.action = "reply"
  /\ chatOut.response.decision_source = "kb"
  /\ chatOut.response.decision_reason = "kb_document_match"

\* A returned outcome that a guardrail changed.
DecisionProvenanceGuardrailWitness ==
  /\ Returned
  /\ chatOut.pre.decision_source = "kb"
  /\ chatOut.response.decision_source = "guardrail"
  /\ chatOut.response.decision_reason = "guardrail_low_similarity"

(***************************************************************************)
(* handle_chat: persistence failures                                       *)
(***************************************************************************)
\* What the last request returns when no dependency call raises.
WithRunStored ==
  handle_chat(chatReq.payload, [chatReq.deps EXCEPT !.fault = "none"],
              chatReq.table, chatReq.uuid)

\* C17: Audit persistence is best-effort.  A request whose call of
\* runs_repo.create_run raises returns the outcome (action, confidence,
\* reply, citations, ticket_id) it returns when the run record is stored,
\* and raises no error; a request whose write of the conversation, of a
\* message or of the ticket raises fails.
AuditBestEffort ==
  /\ (chatReq.deps.fault = "create_run" /\ Calls(chatOut, "create_run")) =>
       \E stored \in {WithRunStored} :
         /\ Returned
         /\ stored.status = "ok"
         /\ chatOut.response.action = stored.response.action
         /\ chatOut.response.confidence = stored.response.confidence
         /\ chatOut.response.reply = stored.response.reply
         /\ chatOut.response.citations = stored.response.citations
         /\ chatOut.ticket_id = stored.ticket_id
  /\ chatOut.cause # "create_run"
  /\ (chatReq.deps.fault = "create_conversation"
        /\ Calls(chatOut, "create_conversation")) => Failed
  /\ (chatReq.deps.fault = "create_message_user"
        /\ CallCount(chatOut, "create_message") >= 1) => Failed
  /\ (chatReq.deps.fault = "create_message_assistant"
        /\ CallCount(chatOut, "create_message") = 2) => Failed
  /\ (chatReq.deps.fault = "create_ticket"
        /\ Calls(chatOut, "create_ticket")) => Failed

\* A request answered from the knowledge base whose run record is lost.
AuditBestEffortWitness ==
  /\ chatReq.deps.fault = "create_run"
  /\ Calls(chatOut, "create_run")
  /\ Returned
  /\ ~chatOut.run_recorded
  /\ chatOut.response.action = "reply"

\* A request whose write of the assistant message raises.
AuditBestEffortWriteWitness ==
  /\ chatReq.deps.fault = "create_message_assistant"
  /\ CallCount(chatOut, "create_message") = 2
  /\ Failed

(***************************************************************************)
(* The guardrail stage                                                     *)
(***************************************************************************)
\* Both checks apply to the pre-guardrail state.
BothApply ==
  /\ grdArgs.d.action = "reply"
  /\ grdArgs.retrieval_source = "vector"
  /\ grdArgs.top_similarity # NoSimilarity
  /\ grdArgs.top_similarity[1] < REPLY_MIN_SIMILARITY
  /\ ~HasCitations(grdArgs.d.citations)

\* C20: Guardrail order-independence and idempotence.  For every
\* pre-guardrail state, the two checks applied in either order, or applied
\* a second time to their own result, yield the same outcome: action,
\* confidence, reply text, citations, guardrail, decision_reason and
\* decision_source.
GuardrailOrderIndependence ==
  grdOut.applied =>
    /\ grdOut.missing_first = grdOut.low_first
    /\ grdOut.twice = grdOut.low_first

\* C20 as amended: the two checks applied in either order yield the same
\* action, confidence, reply text, citations and decision_source, and the
\* same guardrail and decision_reason unless both checks apply to the
\* pre-guardrail state, in which case they are those of the check applied
\* first; applied a second time to their own result they change nothing.
GuardrailOrderAmended ==
  grdOut.applied =>
    /\ grdOut.missing_first.action = grdOut.low_first.action
    /\ grdOut.missing_first.confidence = grdOut.low_first.confidence
    /\ grdOut.missing_first.reply = grdOut.low_first.reply
    /\ grdOut.missing_first.citations = grdOut.low_first.citations
    /\ grdOut.missing_first.decision_source = grdOut.low_first.decision_source
    /\ ~BothApply => grdOut.missing_first = grdOut.low_first
    /\ BothApply =>
         /\ grdOut.low_first.guardrail = "low_similarity"
         /\ grdOut.low_first.decision_reason = "guardrail_low_similarity"
         /\ grdOut.missing_first.guardrail = "missing_citations"
         /\ grdOut.missing_first.decision_reason = "guardrail_missing_citations"
    /\ grdOut.twice = grdOut.low_first

\* A confident reply from a vector match below the floor, with no citations.
GuardrailOrderAmendedWitness ==
  /\ grdOut.applied
  /\ BothApply
  /\ grdArgs.d.confidence > 4000
  /\ grdOut.low_first.action = "ask_clarifying"

(***************************************************************************)
(* handle_chat in a conversation with stored messages                      *)
(***************************************************************************)
\* The stored messages of the request's conversation at the start of the
\* request, the last CONTEXT_MESSAGE_LIMIT of them, and their transcript.
StoredTurns ==
  SelectSeq(chatReq.table,
            LAMBDA m : m.conversation_id = chatReq.payload.conversation_id)

WindowTurns ==
  SubSeq(StoredTurns, Max(1, Len(StoredTurns) - CONTEXT_MESSAGE_LIMIT + 1),
         Len(StoredTurns))

Transcript == conversation_context(WindowTurns, CONTEXT_MAX_CHARS)

UserPrefix == <<"\n", "u", "s", "e", "r", ":", " ">>

\* C21: Retrieval input.  When a request reaches the retriever, the
\* retriever is called with the raw message if the conversation has no
\* prior context, and with the windowed transcript followed by the current
\* message if it has.
RetrievalInput ==
  Calls(chatOut, "retrieve") =>
    chatOut.retrieval_query =
      IF Len(Transcript) = 0 THEN chatOut.message
      ELSE Transcript \o UserPrefix \o chatOut.message

(***************************************************************************)
(* build_retrieval_query                                                   *)
(***************************************************************************)
\* The prior user turns (those with content), and the last assistant turn.
PriorUserTurns ==
  SelectSeq(qryArgs.prior_messages,
            LAMBDA m : m.role = "user" /\ Len(m.content) > 0)

AssistantTurns ==
  SelectSeq(qryArgs.prior_messages, LAMBDA m : m.role = "assistant")

LastAssistantIsClarify ==
  /\ Len(AssistantTurns) > 0
  /\ Strip(AssistantTurns[Len(AssistantTurns)].content) = get_clarify_prompt

Rewritten ==
  /\ Len(qryOut.context_text) > 0
  /\ LastAssistantIsClarify
  /\ Len(PriorUserTurns) > 0

\* The last two prior user turns, stripped, then the message, one per line.
LastTwoThenMessage ==
  LET n == Len(PriorUserTurns)
      last == Strip(PriorUserTurns[n].content) \o <<"\n">> \o qryArgs.message
  IN Strip(IF n = 1 THEN last
           ELSE Strip(PriorUserTurns[n - 1].content) \o <<"\n">> \o last)

\* C22: Clarification-loop rewrite.  If and only if the prior context is
\* not empty, the last assistant turn is exactly the clarification prompt
\* and there is a prior user turn, the retrieval query is the last two prior
\* user turns followed by the current message; otherwise it is the current
\* message alone.  The decision message is the transcript followed by the
\* current message whether or not the query is rewritten.
ClarificationRewrite ==
  qryOut.built =>
    /\ Rewritten => qryOut.retrieval_query = LastTwoThenMessage
    /\ ~Rewritten => qryOut.retrieval_query = qryArgs.message
    /\ qryOut.decision_message =
         IF Len(qryOut.context_text) = 0 THEN qryArgs.message
         ELSE qryOut.context_text \o UserPrefix \o qryArgs.message

\* A rewrite from two different prior user turns.
ClarificationRewriteWitness ==
  /\ qryOut.built
  /\ Rewritten
  /\ Len(PriorUserTurns) = 2
  /\ PriorUserTurns[1].content = <<"o", "k">>
  /\ PriorUserTurns[2].content = <<"i", "t">>
  /\ qryOut.retrieval_query = <<"o", "k", "\n", "i", "t", "\n", "g", "o">>

\* Prior context whose last assistant turn is another reply: no rewrite.
ClarificationRewriteOffWitness ==
  /\ qryOut.built
  /\ Len(qryOut.context_text) > 0
  /\ Len(PriorUserTurns) > 0
  /\ ~LastAssistantIsClarify
  /\ qryOut.retrieval_query = qryArgs.message

(***************************************************************************)
(* handle_chat: the order of the steps                                     *)
(***************************************************************************)
\* The place in the pipeline of the k-th dependency call of the request:
\* the first create_message is the user's, the second the assistant's.
StepRank(calls, k) ==
  CASE calls[k] = "create_conversation" -> 0
    [] calls[k] = "load_recent_messages" -> 1
    [] calls[k] = "create_message" ->
         IF \E j \in 1..(k - 1) : calls[j] = "create_message" THEN 5 ELSE 2
    [] calls[k] = "retrieve" -> 3
    [] calls[k] = "create_ticket" -> 4
    [] calls[k] = "create_run" -> 6
    [] OTHER -> 7

\* The call that raised, for a failure caused by a dependency call.
FailedCall == IF chatOut.cause = "ticket_insert_failed" THEN "create_ticket"
              ELSE chatOut.cause

\* C23: Request pipeline order.  The dependency calls of one request occur
\* in the order context load, user-message persist, retrieve, ticket
\* creation, assistant-message persist, run-record persist, each at most
\* once; the context is loaded before the current message is stored; the
\* assistant message is stored only after a required ticket was created;
\* and a failed request made no call after the one that failed.
PipelineOrder ==
  chatOut.status # "none" =>
    /\ \A k \in 1..(Len(chatOut.calls) - 1) :
         StepRank(chatOut.calls, k) < StepRank(chatOut.calls, k + 1)
    /\ \A k \in 1..Len(chatOut.calls) : StepRank(chatOut.calls, k) < 7
    /\ Len(chatOut.persisted) > 0 =>
         /\ chatOut.persisted[1].role = "user"
         /\ messages = chatReq.table \o chatOut.persisted
         /\ \E k \in 1..Len(chatOut.calls) : chatOut.calls[k] = "create_message"
    /\ (CallCount(chatOut, "create_message") = 2
          /\ needs_ticket(chatOut.response.action)) =>
         /\ Calls(chatOut, "create_ticket")
         /\ chatOut.ticket_id \notin {None, ""}
    /\ Failed =>
         /\ ~Calls(chatOut, "create_run")
         /\ chatOut.cause # "ValueError" =>
              chatOut.calls[Len(chatOut.calls)] = FailedCall
         /\ chatOut.cause = "ValueError" =>
              /\ chatOut.calls[Len(chatOut.calls)] \in {"create_message", "retrieve"}
              /\ CallCount(chatOut, "create_message") = 1
    /\ Returned =>
         /\ CallCount(chatOut, "create_message") = 2
         /\ chatOut.calls[Len(chatOut.calls)] = "create_run"

\* A request in a conversation with stored messages that ran the whole
\* pipeline.
PipelineOrderWitness ==
  /\ Returned
  /\ chatReq.payload.conversation_id = 1
  /\ chatOut.calls = <<"load_recent_messages", "create_message", "retrieve",
                       "create_message", "create_run">>

\* A request that failed when the assistant message was stored.
PipelineOrderFailedWitness ==
  /\ Failed
  /\ chatOut.cause = "create_message"
  /\ chatOut.calls = <<"create_conversation", "create_message", "retrieve",
                       "create_message">>

(***************************************************************************)
(* generate_answer: the fallback                                           *)
(***************************************************************************)
\* The evidence generate_answer keeps for the caller's tenant.
TenantEvidence ==
  filter_chunks_by_org(genArgs.chunks, genArgs.org_id, genArgs.allow_global)

\* The completion provider gave a non-empty reply.
Generated ==
  /\ genArgs.configured
  /\ Len(build_context(TenantEvidence, CHUNK_CONTEXT_MAX_CHARS,
                       CONTEXT_TOTAL_MAX_CHARS).parts) > 0
  /\ ~genArgs.llm.raises
  /\ Len(genArgs.llm.reply) > 0

\* C24: Fallback preserves confidence.  Whenever generate_answer obtains no
\* non-empty reply from the completion provider, it returns the clarification
\* prompt with exactly estimate_confidence of the tenant-filtered evidence;
\* a source of "llm" is returned only after a successful generation.
FallbackConfidence ==
  genOut # NoAnswer =>
    /\ ~Generated =>
         /\ genOut.reply = get_clarify_prompt
         /\ genOut.confidence = estimate_confidence(TenantEvidence)
         /\ genOut.source \in {"fallback", "filtered_empty"}
    /\ genOut.source = "llm" => Generated /\ genOut.reply = genArgs.llm.reply

\* The provider call raised for a single short evidence item of similarity
\* 0.99: the multipliers would have lowered the confidence of 0.95.
FallbackConfidenceWitness ==
  /\ genOut # NoAnswer
  /\ genArgs.configured /\ genArgs.llm.raises
  /\ genOut.llm_calls = 1
  /\ Len(TenantEvidence) = 1
  /\ TenantEvidence[1].content_len = 100
  /\ genOut.confidence = 9500
  /\ genOut.source = "fallback"

\* The provider returned an empty reply.
FallbackEmptyReplyWitness ==
  /\ genOut # NoAnswer
  /\ genArgs.configured /\ ~genArgs.llm.raises /\ Len(genArgs.llm.reply) = 0
  /\ genOut.llm_calls = 1
  /\ genOut.confidence = 6000

(***************************************************************************)
(* The keyword step of DefaultRetriever.retrieve                           *)
(***************************************************************************)
\* The alphanumeric tokens of the query that are longer than 3 characters.
LongTokens ==
  LET lowered == Lower(Replace(Strip(kwArgs.message), ",", " "))
      tokens == Split([k \in 1..Len(lowered) |->
                         IF IsAlnum(lowered[k]) THEN lowered[k] ELSE " "])
  IN SelectSeq(tokens, LAMBDA token : Len(token) > 3)

\* Some keyword of the search occurs in the title or the content of doc.
KeywordOccurs(doc) ==
  \E k \in 1..Len(kwOut.keywords) :
    ilike(doc.title, kwOut.keywords[k]) \/ ilike(doc.content, kwOut.keywords[k])

AmongRows(doc) == \E k \in 1..Len(kwOut.docs) : kwOut.docs[k] = doc

\* C25: Keyword strategy is an OR-search.  When the keyword strategy runs,
\* the keywords are the first 5 alphanumeric tokens of the message longer
\* than 3 characters, and every document of the requesting org in which at
\* least one keyword occurs is among the rows returned (the table holds
\* fewer documents than the limit of 3).
KeywordOrSearch ==
  (kwOut.called /\ Len(kwOut.keywords) > 0) =>
    /\ kwOut.keywords = SubSeq(LongTokens, 1, Min(5, Len(LongTokens)))
    /\ \A k \in 1..Len(kwArgs.kb_documents) :
         (kwArgs.kb_documents[k].org_id = kwArgs.org_id
            /\ KeywordOccurs(kwArgs.kb_documents[k]))
           => AmongRows(kwArgs.kb_documents[k])

(***************************************************************************)
(* run_ingest: the failures before the store is touched                    *)
(***************************************************************************)
\* The lookup of the last call finds the document: it exists and, when the
\* request names an org, that org owns it.
LookupFinds ==
  /\ kbDocument.exists
  /\ (lastRun.org_id = None \/ kbDocument.org_id = lastRun.org_id)

PreconditionFailures == {"kb_not_found", "kb_missing_org", "kb_content_empty"}

\* C26: Ingest precondition failures leave the store unchanged.  A call ends
\* with kb_not_found exactly when the document is absent or not owned by the
\* org of the request, with kb_missing_org exactly when the document found
\* has no org, and with kb_content_empty exactly when the document found has
\* an org and chunking yields no chunk; after each of these the store is
\* what it was before the call, nothing was deleted or inserted and
\* provider.embed was not called.
IngestPreconditions ==
  (ipc = "idle" /\ lastRun.status # "none") =>
    /\ lastRun.status = "kb_not_found" <=> ~LookupFinds
    /\ lastRun.status = "kb_missing_org" <=>
         (LookupFinds /\ kbDocument.org_id = None)
    /\ lastRun.status = "kb_content_empty" <=>
         /\ LookupFinds
         /\ kbDocument.org_id # None
         /\ Len(chunk_text(lastRun.text, lastRun.size, lastRun.overlap)) = 0
    /\ lastRun.status \in PreconditionFailures =>
         /\ store = lastRun.before
         /\ lastRun.deleted = 0
         /\ lastRun.inserted = 0
         /\ lastRun.embedCalls = 0

\* A request of another org on a document with stored chunks: 404, and the
\* chunks stay.
IngestNotOwnedWitness ==
  /\ ipc = "idle"
  /\ lastRun.status = "kb_not_found"
  /\ kbDocument.exists
  /\ lastRun.org_id = "org2"
  /\ store # {}

IngestMissingOrgWitness ==
  /\ ipc = "idle"
  /\ lastRun.status = "kb_missing_org"

IngestAbsentWitness ==
  /\ ipc = "idle"
  /\ lastRun.status = "kb_not_found"
  /\ ~kbDocument.exists

\* Content without words after chunks were stored: 400, and the chunks stay.
IngestContentEmptyWitness ==
  /\ ipc = "idle"
  /\ lastRun.status = "kb_content_empty"
  /\ store # {}

(***************************************************************************)
(* Two concurrent run_ingest calls                                         *)
(***************************************************************************)
\* C27: Concurrent ingestion keeps hash uniqueness.  While two run_ingest
\* calls for the same document interleave their store operations, no two
\* stored chunks have the same chunk_hash, and after both complete the
\* stored hash set is the set of distinct hashes of the content.
ConcurrentHashUnique ==
  /\ \A r1 \in concStore : \A r2 \in concStore :
       r1.chunk_hash = r2.chunk_hash => r1.id = r2.id
  /\ (\A p \in Calls2 : concPc[p] = "done") =>
       {r.chunk_hash : r \in concStore} =
         NewHashes(concDoc.content, concDoc.chunk_size, concDoc.chunk_overlap)

(***************************************************************************)
(* chunk_text: termination                                                 *)
(***************************************************************************)
\* C30: chunk_text terminates for every text and every chunk_size and
\* chunk_overlap, zero, negative and overlap >= size included: every pass of
\* the loop that is followed by another moves start forward by at least one
\* word, the chunks are never more than the words, and the call returns.
ChunkTextTerminates ==
  /\ [](Len(stepChunks) <= Len(Split(stepArgs.text)))
  /\ [][(stepPc = "loop" /\ stepPc' = "loop") => stepStart' >= stepStart + 1]_stepVars
  /\ <>(stepPc = "done")

\* A call with chunk_overlap >= chunk_size that made several passes and
\* returned what chunk_text returns.
ChunkTextTerminatesWitness ==
  /\ stepPc = "done"
  /\ stepArgs.chunk_overlap >= stepArgs.chunk_size
  /\ Len(stepChunks) >= 3
  /\ stepChunks = chunk_text(stepArgs.text, stepArgs.chunk_size,
                             stepArgs.chunk_overlap)

\* A call with chunk_size 0 and a negative chunk_overlap.
ChunkTextNonPositiveWitness ==
  /\ stepPc = "done"
  /\ stepArgs.chunk_size = 0
  /\ stepArgs.chunk_overlap = -1
  /\ Len(stepChunks) >= 2

(***************************************************************************)
(* handle_chat over the vector strategy                                    *)
(***************************************************************************)
\* C28: a returned outcome with action reply never carries the clarification
\* prompt as its reply text.
ReplyIsNotClarification ==
  (Returned /\ chatOut.response.action = "reply") =>
    chatOut.response.reply # get_clarify_prompt

(***************************************************************************)
(* handle_chat: what precheck_action is evaluated on                       *)
(***************************************************************************)
\* A ticket keyword occurs in the windowed transcript of the conversation.
WindowHasTicketKeyword ==
  \E keyword \in ticket_keywords : Contains(Lower(Transcript), keyword)

\* C29: Precheck sees the conversation window.  For a request in a
\* conversation with prior context, precheck_action is evaluated on the
\* windowed transcript followed by the current message; when a ticket
\* keyword occurs in the window, precheck decides create_ticket whatever the
\* current message says, so the request neither gets the short-message
\* answer nor reaches the retriever.
PrecheckSeesWindow ==
  (Len(chatOut.persisted) > 0 /\ Len(Transcript) > 0) =>
    /\ chatOut.decision_message = Transcript \o UserPrefix \o chatOut.message
    /\ WindowHasTicketKeyword =>
         /\ Len(precheck_action(chatOut.decision_message)) > 0
         /\ precheck_action(chatOut.decision_message)[2] = "create_ticket"
         /\ ~Calls(chatOut, "retrieve")

====
